---- MODULE Spec2Model ----
(***************************************************************************)
(* A model of the qpdf-rs binding: documents (Qpdf), object handles        *)
(* (QpdfObject) and their typed views, stream buffers (QpdfStreamData),    *)
(* the error translator (last_error_or_then / error_or_ok) and the writer. *)
(* The native engine is modelled at its C interface: a context per         *)
(* document, a table of object handles per context, one pending error      *)
(* record per context, and malloc'ed stream buffers.                       *)
(***************************************************************************)
EXTENDS Integers, Sequences, FiniteSets, TLC

VARIABLES
    ctx,      \* ctx[d]: the engine context Qpdf.inner of document d: "none", "alive", "released"
    oh,       \* oh[d]: the context's handle table, oh[d][h] = [node, ty, wrapped, released]
    err,      \* err[d]: the context's pending error record, <<>> or <<[code, detail, position]>>
    refs,     \* refs[d]: the contexts whose data d's object graph still refers to
    pages,    \* pages[d]: the page objects in document d's page tree, in order
    bufs,     \* bufs[b]: a buffer the engine malloc'ed: "owned" (by a QpdfStreamData), "freed", "lost"
    uaf,      \* the kinds of access to a released context seen so far
    last,     \* what the last operation was given and what it returned
    heap,     \* heap[n]: what the container node n holds: an array's items, a dictionary's entries
    iter,     \* the array iterator in use: [arr, index], or <<>> when there is none
    staged    \* staged[f]: field f of the QPdfWriter: <<>> for None, <<v>> for Some(v)

vars == <<ctx, oh, err, refs, pages, bufs, uaf, last, heap, iter, staged>>

----------------------------------------------------------------------------
\* Bounds of the model.

MaxDocs == 2
MaxOh == 3
MaxTable == 6
MaxBuf == 1
MaxPages == 4
MaxCode == 9
MaxPos == 2
MaxStr == 1
MaxLen == 2
MaxMade == 2

Docs == 1..MaxDocs

----------------------------------------------------------------------------
\* The engine's error codes (qpdf_sys::qpdf_error_code_e_*).

qpdf_e_success == 0
qpdf_e_internal == 1
qpdf_e_system == 2
qpdf_e_unsupported == 3
qpdf_e_password == 4
qpdf_e_damaged_pdf == 5
qpdf_e_pages == 6
qpdf_e_object == 7

\* error_or_ok: the kind an engine code maps to, "Ok" for the success code.
error_or_ok_swapped(error) ==
    CASE error = qpdf_e_success -> "Ok"
      [] error = qpdf_e_internal -> "InternalError"
      [] error = qpdf_e_system -> "SystemError"
      [] error = qpdf_e_unsupported -> "Unsupported"
      [] error = qpdf_e_password -> "DamagedPdf"
      [] error = qpdf_e_damaged_pdf -> "InvalidPassword"
      [] error = qpdf_e_pages -> "PagesError"
      [] error = qpdf_e_object -> "ObjectError"
      [] OTHER -> "Unknown"

error_or_ok(error) ==
    CASE error = qpdf_e_success -> "Ok"
      [] error = qpdf_e_internal -> "InternalError"
      [] error = qpdf_e_system -> "SystemError"
      [] error = qpdf_e_unsupported -> "Unsupported"
      [] error = qpdf_e_password -> "InvalidPassword"
      [] error = qpdf_e_damaged_pdf -> "DamagedPdf"
      [] error = qpdf_e_pages -> "PagesError"
      [] error = qpdf_e_object -> "ObjectError"
      [] OTHER -> "Unknown"

----------------------------------------------------------------------------
\* Strings are sequences of bytes; 0 is NUL, 255 a byte that is not UTF-8.

NUL == 0
BadUtf8 == 255
ReplacementChar == 65533

\* CStr::to_string_lossy: every invalid byte becomes U+FFFD.
to_string_lossy(bytes) ==
    [i \in 1..Len(bytes) |-> IF bytes[i] = BadUtf8 THEN ReplacementChar ELSE bytes[i]]

\* CString::new(s) is Err(NulError) exactly when s holds a NUL byte.
HasNul(s) == \E i \in 1..Len(s) : s[i] = NUL

----------------------------------------------------------------------------
\* The engine's pending error: qpdf_has_error, qpdf_get_error.

NoError == <<>>
EngineError(code, detail, position) ==
    <<[code |-> code, detail |-> detail, position |-> position]>>

\* The error a failing engine call of the lifecycle model records.
Raise(code) == EngineError(code, <<<<69>>>>, 0)

qpdf_has_error(e) == e # NoError

\* A call that fails replaces the pending record; one that succeeds leaves it.
AfterCall(pending, own) == IF own # NoError THEN own ELSE pending

\* last_error_or_then(f): Ok(f()) when no error is pending, else the error
\* translated; value is what f() would build.
last_error_or_then_nodetail(e, value) ==
    IF ~qpdf_has_error(e)
    THEN [ok |-> TRUE, value |-> value]
    ELSE IF error_or_ok(e[1].code) = "Ok"
         THEN [ok |-> TRUE, value |-> value]
         ELSE [ok |-> FALSE,
               error_code |-> error_or_ok(e[1].code),
               description |-> <<>>,
               position |-> <<e[1].position>>]

last_error_or_then(e, value) ==
    IF ~qpdf_has_error(e)
    THEN [ok |-> TRUE, value |-> value]
    ELSE IF error_or_ok(e[1].code) = "Ok"
         THEN [ok |-> TRUE, value |-> value]
         ELSE [ok |-> FALSE,
               error_code |-> error_or_ok(e[1].code),
               description |-> IF e[1].detail # <<>>
                               THEN <<to_string_lossy(e[1].detail[1])>>
                               ELSE <<>>,
               position |-> <<e[1].position>>]

\* qpdf_get_error hands the record out and clears it.
qpdf_get_error(e) == NoError

\* What last_error_or_then leaves pending: the record is consumed when read.
Consumed(e) == IF qpdf_has_error(e) THEN qpdf_get_error(e) ELSE e

\* impl From<NulError> for QPdfError.
FromNulError ==
    [ok |-> FALSE,
     error_code |-> "InvalidParameter",
     description |-> <<"Unexpected null code in the string parameter">>,
     position |-> <<>>]

----------------------------------------------------------------------------
\* Object handles.  The engine numbers a context's handles 1, 2, ...; a
\* QpdfObject wraps one handle and releases it when dropped.

RECURSIVE SumLen(_, _)
SumLen(t, n) == IF n = 0 THEN 0 ELSE Len(t[n]) + SumLen(t, n - 1)

\* The handles minted so far, over all contexts.
TotalOh == SumLen(oh, MaxDocs)

\* The handles made are no more than MaxOh.
Within == TotalOh <= MaxOh

Node(k, n) == [k |-> k, n |-> n]

\* The engine adds a handle to the context's table and returns its number.
\* of is the handle a clone was made of (0 for every other handle).
Mint(t, d, node, ty) ==
    [t EXCEPT ![d] = Append(@, [node |-> node, ty |-> ty, wrapped |-> 0, released |-> 0,
                                of |-> 0])]

NextOh(d) == Len(oh[d]) + 1

\* QpdfObject::new(owner, inner): a wrapper that owns handle h.
QpdfObject_new(t, d, h) == [t EXCEPT ![d][h].wrapped = @ + 1]

\* impl Drop for QpdfObject: qpdf_oh_release(owner.inner, inner); the engine
\* forgets what the handle stood for.
QpdfObject_drop(t, d, h) ==
    [t EXCEPT ![d][h] = [node |-> Node("gone", 0), ty |-> "gone",
                         wrapped |-> @.wrapped - 1, released |-> @.released + 1,
                         of |-> 0]]

Live(d, h) == h \in 1..Len(oh[d]) /\ oh[d][h].wrapped > 0

Handles == {dh \in Docs \X (1..MaxTable) : Live(dh[1], dh[2])}

\* QpdfObject { owner: &'a Qpdf, .. }: a document with a live handle is
\* borrowed, and a borrowed value cannot be dropped.
CanDrop_unchecked(d) == TRUE

CanDrop(d) == \A h \in 1..Len(oh[d]) : oh[d][h].wrapped = 0

\* An engine call made with context d: a use after free when d was released.
Touch(d) == IF ctx[d] = "alive" THEN uaf ELSE uaf \cup {"handle"}

----------------------------------------------------------------------------
\* What an operation returned.  strs are its string arguments, of which the
\* record keeps whether one holds a NUL; arg are the values a claim reads;
\* raised: its own engine call failed; stale: an error was pending before it.

NoResult == [op |-> "init", doc |-> 0, arg |-> <<>>, nul |-> FALSE, res |-> "unit",
             code |-> "", raised |-> FALSE, stale |-> FALSE]

Outcome(op, d, arg, strs, res, code, own, pending) ==
    [op |-> op, doc |-> d, arg |-> arg, nul |-> \E i \in 1..Len(strs) : HasNul(strs[i]),
     res |-> res, code |-> code, raised |-> own # NoError, stale |-> pending # NoError]

\* The outcome of an operation that returns Result<T>.
OfResult(op, d, arg, strs, r, own, pending) ==
    Outcome(op, d, arg, strs, IF r.ok THEN "ok" ELSE "err",
            IF r.ok THEN "" ELSE r.error_code, own, pending)

\* An operation that cannot fail and returns no Option leaves nothing to read.
Quiet == NoResult

\* CString::new(s).unwrap() on a string with a NUL: the operation panics.
Panic(op, d, arg, strs) ==
    Outcome(op, d, arg, strs, "panic", "", NoError, NoError)

\* The fields of a QPdfWriter the model follows, in the order in which
\* process_params applies them: two of the flags, the two versions and the
\* encryption parameters (of which the record keeps the user password).
Flags == {"compress_streams", "linearize"}
Versions == {"min_pdf_version", "force_pdf_version"}
Fields == <<"compress_streams", "linearize", "min_pdf_version", "force_pdf_version",
            "encryption_params">>
FieldSet == {Fields[i] : i \in 1..Len(Fields)}

\* QPdfWriter::new(owner): every field None.
QPdfWriter_new == [f \in FieldSet |-> <<>>]

Init ==
    /\ staged = QPdfWriter_new
    /\ ctx = [d \in Docs |-> "none"]
    /\ oh = [d \in Docs |-> <<>>]
    /\ err = [d \in Docs |-> NoError]
    /\ refs = [d \in Docs |-> {}]
    /\ pages = [d \in Docs |-> <<>>]
    /\ bufs = <<>>
    /\ uaf = {}
    /\ last = NoResult
    /\ heap = [n \in 1..MaxTable |-> <<>>]
    /\ iter = <<>>

\* Documents are numbered in the order they are created.
\* qpdf_get_num_pages: the length of the page tree.
num_pages(d) == Len(pages[d])

\* The page objects of a file of n pages, numbered as the file numbers them.
PagesOfFile(n) == [i \in 1..n |-> Node("page", i - 1)]

\* The page tree of d refers to the object.
InTree(d, node) == \E i \in 1..Len(pages[d]) : pages[d][i] = node

Fresh(d) == ctx[d] = "none" /\ \A e \in Docs : e < d => ctx[e] # "none"

----------------------------------------------------------------------------
\* Qpdf::new: qpdf_init and an empty document.
New(d) ==
    /\ Fresh(d)
    /\ ctx' = [ctx EXCEPT ![d] = "alive"]
    /\ last' = Quiet
    /\ UNCHANGED <<oh, err, refs, pages, bufs, uaf, heap, iter, staged>>

\* The files a document is read from, and the password of the protected one.
Files == {"plain", "protected", "damaged"}
FilePages == 2
FilePassword == <<65>>

\* password.and_then(|p| CString::new(p).ok()): the pointer handed to the engine.
raw_password(password) ==
    IF password # <<>> /\ ~HasNul(password[1]) THEN password ELSE <<>>

\* qpdf_read / qpdf_read_memory: the error the engine records, if any.
qpdf_read(file, raw) ==
    IF file = "damaged" THEN Raise(qpdf_e_damaged_pdf)
    ELSE IF file = "protected" /\ raw # <<FilePassword>> THEN Raise(qpdf_e_password)
    ELSE NoError

\* do_load_file(path, password) on a fresh context.
do_load_file(path, file, password) ==
    IF HasNul(path)
    THEN FromNulError
    ELSE last_error_or_then(AfterCall(NoError, qpdf_read(file, raw_password(password))), "unit")

\* do_load_memory(buf, password) on a fresh context.
do_load_memory(file, password) ==
    last_error_or_then(AfterCall(NoError, qpdf_read(file, raw_password(password))), "unit")

\* A load that keeps a failed document would leave its context alive.
AfterLoad_keep(r) == "alive"

\* Qpdf::load and its variants: `?` drops the new Qpdf when the load fails.
AfterLoad(r) == IF r.ok THEN "alive" ELSE "released"

\* Qpdf::load, load_encrypted (src = "file"), load_from_memory,
\* load_from_memory_encrypted (src = "memory"); password is <<>> or <<p>>.
Load(d, src, path, file, password) ==
    /\ Fresh(d)
    /\ LET own == IF src = "file" /\ HasNul(path) THEN NoError
                  ELSE qpdf_read(file, raw_password(password))
           r == IF src = "file" THEN do_load_file(path, file, password)
                ELSE do_load_memory(file, password)
       IN /\ ctx' = [ctx EXCEPT ![d] = AfterLoad(r)]
          /\ pages' = [pages EXCEPT ![d] = IF r.ok THEN PagesOfFile(FilePages) ELSE <<>>]
          /\ last' = OfResult("load", d, <<src, file, password, path>>,
                               IF src = "file" THEN <<path>> \o password ELSE password,
                               r, own, NoError)
    /\ UNCHANGED <<oh, err, refs, bufs, uaf, heap, iter, staged>>

\* impl Drop for Qpdf: qpdf_cleanup releases the context.
DropDoc(d) ==
    /\ ctx[d] = "alive"
    /\ CanDrop(d)
    /\ ctx' = [ctx EXCEPT ![d] = "released"]
    /\ last' = Quiet
    /\ UNCHANGED <<oh, err, refs, pages, bufs, uaf, heap, iter, staged>>

----------------------------------------------------------------------------
\* Object constructors.  None of them reads the engine's error state.

\* new_bool, new_null, new_integer, new_real, new_array, new_dictionary,
\* new_binary_string: one engine call, the handle wrapped.
new_object(d, ty) ==
    /\ ctx[d] = "alive"
    /\ TotalOh < MaxTable
    /\ oh' = QpdfObject_new(Mint(oh, d, Node("obj", TotalOh + 1), ty), d, NextOh(d))
    /\ last' = Quiet
    /\ UNCHANGED <<ctx, err, refs, pages, bufs, uaf, heap, iter, staged>>

\* new_name, new_string, new_utf8_string, new_real_from_string:
\* CString::new(value).unwrap(), then as above.
new_name(d, value) ==
    /\ ctx[d] = "alive"
    /\ TotalOh < MaxTable
    /\ IF HasNul(value)
       THEN /\ last' = Panic("new_name", d, <<>>, <<value>>)
            /\ oh' = oh
       ELSE /\ oh' = QpdfObject_new(Mint(oh, d, Node("obj", TotalOh + 1), "name"), d, NextOh(d))
            /\ last' = Quiet
    /\ UNCHANGED <<ctx, err, refs, pages, bufs, uaf, heap, iter, staged>>

\* new_stream(data): the stream and the two nulls given as filter and params
\* are three handles; the nulls are temporaries, dropped on return.
\* What the engine keeps of a stream: its bytes and its dictionary.
StreamOf(data, dict) == [data |-> data, dict |-> dict]

\* The handles after Qpdf::new_stream: the stream's, and those of the two
\* nulls given to replace_stream_data, which are dropped again.
NewStream(t, d, n) ==
    LET h == Len(t[d]) + 1
        t1 == QpdfObject_new(Mint(t, d, Node("obj", n), "stream"), d, h)
        t2 == QpdfObject_new(Mint(t1, d, Node("null", 0), "null"), d, h + 1)
        t3 == QpdfObject_new(Mint(t2, d, Node("null", 0), "null"), d, h + 2)
    IN QpdfObject_drop(QpdfObject_drop(t3, d, h + 2), d, h + 1)

new_stream(d, data) ==
    /\ ctx[d] = "alive"
    /\ TotalOh + 3 <= MaxTable
    /\ oh' = NewStream(oh, d, TotalOh + 1)
    /\ heap' = [heap EXCEPT ![TotalOh + 1] = StreamOf(data, <<>>)]
    /\ last' = Outcome("new_stream", d, <<NextOh(d), data>>, <<>>, "unit", "", NoError, err[d])
    /\ UNCHANGED <<ctx, err, refs, pages, bufs, uaf, iter, staged>>

\* impl Clone for QpdfObject: qpdf_oh_new_object mints a second handle for
\* the same node, and the clone wraps that one.
\* The handle a handle goes back to through clones.
Origin(t, d, h) == IF t[d][h].of = 0 THEN h ELSE t[d][h].of

\* qpdf_oh_new_object: a new handle of the object behind h.
clone_handle(t, d, h) ==
    [QpdfObject_new(Mint(t, d, t[d][h].node, t[d][h].ty), d, Len(t[d]) + 1)
        EXCEPT ![d][Len(t[d]) + 1].of = Origin(t, d, h)]

clone_apart(d, h) ==
    /\ Live(d, h)
    /\ TotalOh < MaxTable
    /\ oh' = [QpdfObject_new(Mint(oh, d, Node("obj", TotalOh + 1), oh[d][h].ty), d, NextOh(d))
                 EXCEPT ![d][NextOh(d)].of = Origin(oh, d, h)]
    /\ uaf' = Touch(d)
    /\ last' = Quiet
    /\ UNCHANGED <<ctx, err, refs, pages, bufs, heap, iter, staged>>

clone(d, h) ==
    /\ Live(d, h)
    /\ TotalOh < MaxTable
    /\ oh' = clone_handle(oh, d, h)
    /\ uaf' = Touch(d)
    /\ last' = Quiet
    /\ UNCHANGED <<ctx, err, refs, pages, bufs, heap, iter, staged>>

\* The iterator in use borrows the array view it was made from.
Borrowed(d, h) == iter # <<>> /\ iter.doc = d /\ iter.arr = h

\* A QpdfObject (or the view that wraps it) goes out of scope.
\* What a handle stands for when it is stored as a value or an item.
RefOf(d, h) == [node |-> oh[d][h].node, ty |-> oh[d][h].ty]

\* The container node behind a handle of an object the program made; 0 for
\* the objects of a file, whose contents the model does not follow.
Cell(d, h) == IF oh[d][h].node.k \in {"obj", "ind"} THEN oh[d][h].node.n ELSE 0

drop(d, h) ==
    /\ Live(d, h)
    /\ ~Borrowed(d, h)
    /\ oh' = QpdfObject_drop(oh, d, h)
    /\ uaf' = Touch(d)
    /\ last' = Quiet
    /\ UNCHANGED <<ctx, err, refs, pages, bufs, heap, iter, staged>>

\* The object ids of a file: the catalog is object 1, page i is object i + 2,
\* and the objects the program promotes, and the streams it makes, which are
\* indirect from the start, come after them.  A direct object has id 0.
FileTop == MaxPages + 2

\* An id past every id the engine can have given out.
NeverId == FileTop + MaxTable + 1

get_id(d, h) ==
    LET node == oh[d][h].node
    IN IF node.k = "ind" THEN FileTop + node.n
       ELSE IF node.k = "obj" /\ oh[d][h].ty = "stream" THEN FileTop + node.n
       ELSE IF node.k = "page" THEN node.n + 2
       ELSE IF node.k = "root" THEN 1
       ELSE 0

\* QpdfObject::is_indirect() and get_generation().
is_indirect(d, h) == get_id(d, h) # 0

get_generation(d, h) == 0

\* qpdf_make_indirect_object: the node of the indirect object made of h.
make_indirect(d, h) == Node("ind", TotalOh + 1)

\* into_indirect(self): qpdf_make_indirect_object mints the handle of a new
\* indirect object; self is consumed, so its handle is released.
into_indirect_kept(d, h) ==
    /\ Live(d, h)
    /\ ~Borrowed(d, h)
    /\ TotalOh < MaxTable
    /\ oh' = QpdfObject_drop(
                QpdfObject_new(Mint(oh, d, oh[d][h].node, oh[d][h].ty),
                               d, NextOh(d)),
                d, h)
    /\ heap' = IF Cell(d, h) # 0
               THEN [heap EXCEPT ![make_indirect(d, h).n] = heap[Cell(d, h)]]
               ELSE heap
    /\ uaf' = Touch(d)
    /\ last' = Outcome("into_indirect", d, <<get_id(d, h), NextOh(d)>>, <<>>, "unit", "",
                       NoError, err[d])
    /\ UNCHANGED <<ctx, err, refs, pages, bufs, iter, staged>>

into_indirect(d, h) ==
    /\ Live(d, h)
    /\ ~Borrowed(d, h)
    /\ TotalOh < MaxTable
    /\ oh' = QpdfObject_drop(
                QpdfObject_new(Mint(oh, d, make_indirect(d, h), oh[d][h].ty),
                               d, NextOh(d)),
                d, h)
    /\ heap' = IF Cell(d, h) # 0
               THEN [heap EXCEPT ![make_indirect(d, h).n] = heap[Cell(d, h)]]
               ELSE heap
    /\ uaf' = Touch(d)
    /\ last' = Outcome("into_indirect", d, <<get_id(d, h), NextOh(d)>>, <<>>, "unit", "",
                       NoError, err[d])
    /\ UNCHANGED <<ctx, err, refs, pages, bufs, iter, staged>>

\* impl PartialEq for QpdfObject: self.inner == other.inner, the numbers of
\* the two handles; the owners are not compared.
eq(a, h, b, g) ==
    /\ Live(a, h)
    /\ Live(b, g)
    /\ last' = Outcome("eq", a, <<h, b, g>>, <<>>, IF h = g THEN "true" ELSE "false", "",
                       NoError, NoError)
    /\ UNCHANGED <<ctx, oh, err, refs, pages, bufs, uaf, heap, iter, staged>>

----------------------------------------------------------------------------
\* Lookups.

\* get_page(zero_based_index): qpdf_get_page_n fails past the last page and
\* then hands back the handle of an uninitialized object; the binding reads
\* the error state first and wraps the handle only when none is pending.
get_page_peek(d, i) ==
    /\ ctx[d] = "alive"
    /\ TotalOh < MaxTable
    /\ LET own == IF i < num_pages(d) THEN NoError ELSE Raise(qpdf_e_internal)
           minted == IF i < num_pages(d)
                     THEN Mint(oh, d, pages[d][i + 1], "dictionary")
                     ELSE Mint(oh, d, Node("uninit", 0), "uninitialized")
           h == NextOh(d)
           r == last_error_or_then(AfterCall(err[d], own), "unit")
       IN /\ oh' = IF r.ok /\ h # 0 THEN QpdfObject_new(minted, d, h) ELSE minted
          /\ err' = [err EXCEPT ![d] = AfterCall(err[d], own)]
          /\ last' = Outcome("get_page", d, <<i < num_pages(d)>>, <<>>,
                             IF r.ok /\ h # 0 THEN "some" ELSE "none", "", own, err[d])
    /\ UNCHANGED <<ctx, refs, pages, bufs, uaf, heap, iter, staged>>

get_page(d, i) ==
    /\ ctx[d] = "alive"
    /\ TotalOh < MaxTable
    /\ LET own == IF i < num_pages(d) THEN NoError ELSE Raise(qpdf_e_internal)
           minted == IF i < num_pages(d)
                     THEN Mint(oh, d, pages[d][i + 1], "dictionary")
                     ELSE Mint(oh, d, Node("uninit", 0), "uninitialized")
           h == NextOh(d)
           r == last_error_or_then(AfterCall(err[d], own), "unit")
       IN /\ oh' = IF r.ok /\ h # 0 THEN QpdfObject_new(minted, d, h) ELSE minted
          /\ err' = [err EXCEPT ![d] = Consumed(AfterCall(err[d], own))]
          /\ last' = Outcome("get_page", d, <<i < num_pages(d)>>, <<>>,
                             IF r.ok /\ h # 0 THEN "some" ELSE "none", "", own, err[d])
    /\ UNCHANGED <<ctx, refs, pages, bufs, uaf, heap, iter, staged>>

\* The tail of get_trailer, get_root and get_object_by_id: the handle is
\* wrapped once the error state was read, and the wrapper is dropped again
\* when the object is null or uninitialized.
Lookup(minted, d, h, r) ==
    IF ~r.ok THEN minted
    ELSE IF minted[d][h].ty \notin {"null", "uninitialized"}
         THEN QpdfObject_new(minted, d, h)
         ELSE QpdfObject_drop(QpdfObject_new(minted, d, h), d, h)

LookupRes(minted, d, h, r) ==
    IF r.ok /\ minted[d][h].ty \notin {"null", "uninitialized"} THEN "some" ELSE "none"

\* get_trailer: the handle of the document's trailer.
get_trailer(d) ==
    /\ ctx[d] = "alive"
    /\ TotalOh < MaxTable
    /\ LET minted == Mint(oh, d, Node("trailer", 0), "dictionary")
           h == NextOh(d)
           r == last_error_or_then(AfterCall(err[d], NoError), "unit")
       IN /\ oh' = Lookup(minted, d, h, r)
          /\ err' = [err EXCEPT ![d] = Consumed(err[d])]
          /\ last' = Outcome("get_trailer", d, <<>>, <<>>, LookupRes(minted, d, h, r), "",
                             NoError, err[d])
    /\ UNCHANGED <<ctx, refs, pages, bufs, uaf, heap, iter, staged>>

\* get_root: the handle of the document's catalog.
get_root(d) ==
    /\ ctx[d] = "alive"
    /\ TotalOh < MaxTable
    /\ LET minted == Mint(oh, d, Node("root", 0), "dictionary")
           h == NextOh(d)
           r == last_error_or_then(AfterCall(err[d], NoError), "unit")
       IN /\ oh' = Lookup(minted, d, h, r)
          /\ err' = [err EXCEPT ![d] = Consumed(err[d])]
          /\ last' = Outcome("get_root", d, <<>>, <<>>, LookupRes(minted, d, h, r), "",
                             NoError, err[d])
    /\ UNCHANGED <<ctx, refs, pages, bufs, uaf, heap, iter, staged>>

\* The ids a lookup is made with: those of the file's objects, those of the
\* objects that have a live handle, and those the engine never gave out (the
\* model does not keep the objects whose handles were all dropped).
Asked(d, obj_id) ==
    \/ obj_id \notin FileTop + 1..FileTop + TotalOh
    \/ \E g \in 1..Len(oh[d]) : Live(d, g) /\ get_id(d, g) = obj_id

\* qpdf_get_object_by_id: the object with this id and generation; the engine
\* answers an id that is not in use with a null.
ObjectOf(d, obj_id, gen) ==
    IF gen # 0 \/ obj_id = 0 THEN [node |-> Node("null", 0), ty |-> "null"]
    ELSE IF obj_id = 1 THEN [node |-> Node("root", 0), ty |-> "dictionary"]
    ELSE IF InTree(d, Node("page", obj_id - 2))
    THEN [node |-> Node("page", obj_id - 2), ty |-> "dictionary"]
    ELSE IF \E g \in 1..Len(oh[d]) : Live(d, g) /\ get_id(d, g) = obj_id
    THEN RefOf(d, CHOOSE g \in 1..Len(oh[d]) : Live(d, g) /\ get_id(d, g) = obj_id)
    ELSE [node |-> Node("null", 0), ty |-> "null"]

\* get_object_by_id(obj_id, gen).
get_object_by_id(d, obj_id, gen) ==
    /\ ctx[d] = "alive"
    /\ TotalOh < MaxTable
    /\ Asked(d, obj_id)
    /\ LET minted == Mint(oh, d, ObjectOf(d, obj_id, gen).node, ObjectOf(d, obj_id, gen).ty)
           h == NextOh(d)
           r == last_error_or_then(AfterCall(err[d], NoError), "unit")
       IN /\ oh' = Lookup(minted, d, h, r)
          /\ err' = [err EXCEPT ![d] = Consumed(err[d])]
          /\ last' = Outcome("get_object_by_id", d, <<obj_id, gen>>, <<>>,
                             LookupRes(minted, d, h, r), "", NoError, err[d])
    /\ UNCHANGED <<ctx, refs, pages, bufs, uaf, heap, iter, staged>>

\* The object texts the engine's parser accepts: those that start with byte 65.
Parses(s) == Len(s) > 0 /\ s[1] = 65

\* parse_object(object): CString::new(object)?, qpdf_oh_parse, then
\* last_error_or_then(|| QpdfObject::new(self, oh)): the handle the engine
\* returned is wrapped only when no error is pending.
parse_object(d, object) ==
    /\ ctx[d] = "alive"
    /\ TotalOh < MaxTable
    /\ IF HasNul(object)
       THEN /\ last' = OfResult("parse_object", d, <<>>, <<object>>, FromNulError,
                                NoError, err[d])
            /\ UNCHANGED <<oh, err>>
       ELSE LET own == IF Parses(object) THEN NoError ELSE Raise(qpdf_e_damaged_pdf)
                minted == IF Parses(object)
                          THEN Mint(oh, d, Node("parsed", TotalOh + 1), "dictionary")
                          ELSE Mint(oh, d, Node("uninit", 0), "uninitialized")
                r == last_error_or_then(AfterCall(err[d], own), "object")
            IN /\ oh' = IF r.ok THEN QpdfObject_new(minted, d, NextOh(d)) ELSE minted
               /\ err' = [err EXCEPT ![d] = Consumed(AfterCall(err[d], own))]
               /\ last' = OfResult("parse_object", d, <<>>, <<object>>, r, own, err[d])
    /\ UNCHANGED <<ctx, refs, pages, bufs, uaf, heap, iter, staged>>

\* get_num_pages: qpdf_get_num_pages, then last_error_or_then(|| n).
get_num_pages(d) ==
    /\ ctx[d] = "alive"
    /\ LET r == last_error_or_then(AfterCall(err[d], NoError), num_pages(d))
       IN /\ err' = [err EXCEPT ![d] = Consumed(err[d])]
          /\ last' = OfResult("get_num_pages", d, IF r.ok THEN <<r.value>> ELSE <<>>, <<>>,
                              r, NoError, err[d])
    /\ UNCHANGED <<ctx, oh, refs, pages, bufs, uaf, heap, iter, staged>>

----------------------------------------------------------------------------
\* Dictionary views.  From<QpdfObject> builds the view of any object, and the
\* engine records an error when a key operation meets an object that is no
\* dictionary; none of these operations reads the error state.

KeyError(d, h) == IF oh[d][h].ty = "dictionary" THEN NoError ELSE Raise(qpdf_e_object)

\* The entries of the dictionary behind a handle: a function from keys.
Entries(d, h) ==
    IF Cell(d, h) # 0 /\ oh[d][h].ty = "dictionary" THEN heap[Cell(d, h)]
    ELSE IF oh[d][h].node.k = "dictof" THEN heap[oh[d][h].node.n].dict
    ELSE <<>>

\* qpdf_oh_replace_key: insert or replace.
Put(e, key, ref) == [k \in DOMAIN e \cup {key} |-> IF k = key THEN ref ELSE e[k]]

\* qpdf_oh_remove_key.
Del(e, key) == [k \in DOMAIN e \ {key} |-> e[k]]

\* The heap once the dictionary behind h holds the entries e.
Store(d, h, e) ==
    IF Cell(d, h) # 0 /\ oh[d][h].ty = "dictionary"
    THEN [heap EXCEPT ![Cell(d, h)] = e]
    ELSE IF oh[d][h].node.k = "dictof"
    THEN [heap EXCEPT ![oh[d][h].node.n].dict = e]
    ELSE heap

\* if obj.get_type() != QpdfObjectType::Null { Some(obj) } else { None }
is_value_any(ty) == TRUE

is_value(ty) == ty # "null"

\* QpdfDictionary::get(key): the handle of the value is wrapped, and dropped
\* again when the value is null.  present stands for the contents of a
\* dictionary of a file: the key has a value that is not null.
QpdfDictionary_get(d, h, key, present) ==
    /\ Live(d, h)
    /\ TotalOh < MaxTable
    /\ IF HasNul(key)
       THEN /\ last' = Panic("get", d, <<>>, <<key>>)
            /\ UNCHANGED <<oh, err, uaf>>
       ELSE LET own == KeyError(d, h)
                known == Cell(d, h) # 0
                ref == IF own # NoError THEN [node |-> Node("null", 0), ty |-> "null"]
                       ELSE IF known
                       THEN IF key \in DOMAIN Entries(d, h) THEN Entries(d, h)[key]
                            ELSE [node |-> Node("null", 0), ty |-> "null"]
                       ELSE IF present THEN [node |-> Node("value", h), ty |-> "integer"]
                            ELSE [node |-> Node("null", 0), ty |-> "null"]
                some == is_value(ref.ty)
                minted == Mint(oh, d, ref.node, ref.ty)
                n == NextOh(d)
            IN /\ oh' = IF some THEN QpdfObject_new(minted, d, n)
                        ELSE QpdfObject_drop(QpdfObject_new(minted, d, n), d, n)
               /\ err' = [err EXCEPT ![d] = AfterCall(err[d], own)]
               /\ uaf' = Touch(d)
               /\ last' = Outcome("get", d, <<h, key>>, <<key>>,
                                  IF some THEN "some" ELSE "none", "", own, err[d])
    /\ UNCHANGED <<ctx, refs, pages, bufs, heap, iter, staged>>

\* QpdfDictionary::has, set and remove: CString::new(key).unwrap() and one
\* engine call on the view's handle; e is what the dictionary holds after it.
\* The record keeps the view, the key, the entries of the other keys before
\* the call and the handle of the value.
KeyOp(op, d, h, key, v, e) ==
    /\ Live(d, h)
    /\ IF HasNul(key)
       THEN /\ last' = Panic(op, d, <<>>, <<key>>)
            /\ UNCHANGED <<err, uaf, heap>>
       ELSE /\ err' = [err EXCEPT ![d] = AfterCall(err[d], KeyError(d, h))]
            /\ uaf' = Touch(d)
            /\ heap' = IF KeyError(d, h) = NoError THEN Store(d, h, e) ELSE heap
            /\ last' = IF op = "has" THEN Quiet
                       ELSE Outcome(op, d, <<h, key, Del(Entries(d, h), key), v>>, <<key>>,
                                    "unit", "", KeyError(d, h), err[d])
    /\ UNCHANGED <<ctx, oh, refs, pages, bufs, iter, staged>>

QpdfDictionary_has(d, h, key) == KeyOp("has", d, h, key, 0, Entries(d, h))

QpdfDictionary_set_self(d, h, key, v) ==
    /\ Live(d, v)
    /\ KeyOp("set", d, h, key, v, Put(Entries(d, h), key, RefOf(d, h)))

QpdfDictionary_set(d, h, key, v) ==
    /\ Live(d, v)
    /\ KeyOp("set", d, h, key, v, Put(Entries(d, h), key, RefOf(d, v)))

QpdfDictionary_remove(d, h, key) == KeyOp("remove", d, h, key, 0, Del(Entries(d, h), key))

----------------------------------------------------------------------------
\* Typed views.

\* impl From<QpdfObject> for QpdfDictionary, QpdfArray and QpdfStream:
\* Self { inner: obj }, for an object of any type.
From(d, h, kind) ==
    /\ Live(d, h)
    /\ last' = Outcome("from", d, <<kind, oh[d][h].ty>>, <<>>, "view", "", NoError, err[d])
    /\ UNCHANGED <<ctx, oh, err, refs, pages, bufs, uaf, heap, iter, staged>>

----------------------------------------------------------------------------
\* Arrays.  A QpdfArray wraps any handle; the engine answers a call on an
\* object that is no array with an error and a default value.

ArrayError(d, h) == IF oh[d][h].ty = "array" THEN NoError ELSE Raise(qpdf_e_object)

\* The items of the array behind a handle.
Items(d, h) ==
    IF Cell(d, h) # 0 /\ oh[d][h].ty = "array" THEN heap[Cell(d, h)] ELSE <<>>

\* QpdfArray::len(): qpdf_oh_get_array_n_items.
len(d, h) == Len(Items(d, h))

\* The heap once the array behind h holds the items s.
StoreItems(d, h, s) ==
    IF Cell(d, h) # 0 /\ oh[d][h].ty = "array"
    THEN [heap EXCEPT ![Cell(d, h)] = s]
    ELSE heap

QpdfArray_len(d, h) ==
    /\ Live(d, h)
    /\ err' = [err EXCEPT ![d] = AfterCall(err[d], ArrayError(d, h))]
    /\ uaf' = Touch(d)
    /\ last' = Outcome("len", d, <<h, len(d, h)>>, <<>>, "unit", "", ArrayError(d, h), err[d])
    /\ UNCHANGED <<ctx, oh, refs, pages, bufs, heap, iter, staged>>

\* The handles and the error state after get(index): the item is fetched and
\* wrapped only when index < self.len().
get_unchecked(d, h, index) == TRUE

get_checked(d, h, index) == index < len(d, h)

\* What qpdf_oh_get_array_item hands back: the item, or null out of range.
ItemAt(d, h, index) ==
    IF index < len(d, h) THEN Items(d, h)[index + 1]
    ELSE [node |-> Node("null", 0), ty |-> "null"]

\* The body of get(index) -> Option<QpdfObject>, which next() calls too.  The
\* record keeps the view, the index and the number of handles before the call.
QpdfArray_item(op, d, h, index) ==
    /\ Live(d, h)
    /\ IF get_checked(d, h, index)
       THEN /\ TotalOh < MaxTable
            /\ oh' = QpdfObject_new(Mint(oh, d, ItemAt(d, h, index).node,
                                         ItemAt(d, h, index).ty), d, NextOh(d))
       ELSE oh' = oh
    /\ err' = [err EXCEPT ![d] = AfterCall(err[d], ArrayError(d, h))]
    /\ uaf' = Touch(d)
    /\ last' = Outcome(op, d, <<h, index, Len(oh[d])>>, <<>>,
                       IF get_checked(d, h, index) THEN "some" ELSE "none", "",
                       ArrayError(d, h), err[d])
    /\ UNCHANGED <<ctx, refs, pages, bufs, heap, staged>>

\* QpdfArray::get(index).
QpdfArray_get(d, h, index) == QpdfArray_item("array_get", d, h, index) /\ UNCHANGED iter

\* One engine call that changes the array behind h into s when the engine
\* accepts it (own = NoError); the binding checks nothing and reads no error.
\* The record keeps the view, the index, the length before the call, rest (the
\* items before the call that the call is not about) and the item's handle.
ArrayOp(op, d, h, index, v, own, s, rest) ==
    /\ Live(d, h)
    /\ Live(d, v)
    /\ err' = [err EXCEPT ![d] = AfterCall(err[d], own)]
    /\ uaf' = Touch(d)
    /\ heap' = IF own = NoError THEN StoreItems(d, h, s) ELSE heap
    /\ last' = Outcome(op, d, <<h, index, len(d, h), rest, v>>, <<>>, "unit", "", own, err[d])
    /\ UNCHANGED <<ctx, oh, refs, pages, bufs, iter, staged>>

\* The items of a sequence without the one at a zero-based index.
Without(s, index) ==
    IF index < Len(s)
    THEN [i \in 1..Len(s) - 1 |-> IF i < index + 1 THEN s[i] ELSE s[i + 1]]
    ELSE s

\* The engine's answer to an index: setArrayItem and eraseItem accept
\* 0..len-1, insertItem accepts 0..len.
RangeError(d, h, index, top) ==
    IF ArrayError(d, h) # NoError THEN ArrayError(d, h)
    ELSE IF index < top THEN NoError ELSE Raise(qpdf_e_object)

\* QpdfArray::push(&self, item): qpdf_oh_append_item.
push_front(d, h, v) ==
    /\ Live(d, h)
    /\ len(d, h) < MaxLen
    /\ ArrayOp("push", d, h, len(d, h), v, ArrayError(d, h), <<RefOf(d, v)>> \o Items(d, h),
               Items(d, h))

push(d, h, v) ==
    /\ Live(d, h)
    /\ len(d, h) < MaxLen
    /\ ArrayOp("push", d, h, len(d, h), v, ArrayError(d, h), Append(Items(d, h), RefOf(d, v)),
               Items(d, h))

\* QpdfArray::set(&mut self, index, item): qpdf_oh_set_array_item.
set(d, h, index, v) ==
    /\ ~Borrowed(d, h)
    /\ ArrayOp("array_set", d, h, index, v, RangeError(d, h, index, len(d, h)),
               [i \in 1..len(d, h) |-> IF i = index + 1 THEN RefOf(d, v) ELSE Items(d, h)[i]],
               Without(Items(d, h), index))

\* QpdfArray::insert(&mut self, index, item): qpdf_oh_insert_item.
insert(d, h, index, v) ==
    /\ Live(d, h)
    /\ ~Borrowed(d, h)
    /\ len(d, h) < MaxLen
    /\ ArrayOp("insert", d, h, index, v, RangeError(d, h, index, len(d, h) + 1),
               [i \in 1..len(d, h) + 1 |->
                   IF i < index + 1 THEN Items(d, h)[i]
                   ELSE IF i = index + 1 THEN RefOf(d, v) ELSE Items(d, h)[i - 1]],
               Items(d, h))

\* QpdfArray::remove(&mut self, index): qpdf_oh_erase_item.
remove(d, h, index) ==
    /\ ~Borrowed(d, h)
    /\ ArrayOp("array_remove", d, h, index, h, RangeError(d, h, index, len(d, h)),
               Without(Items(d, h), index), Without(Items(d, h), index))

\* QpdfArray::iter(): QpdfArrayIterator { index: 0, inner: self }.
QpdfArray_iter(d, h) ==
    /\ Live(d, h)
    /\ iter = <<>>
    /\ iter' = [doc |-> d, arr |-> h, index |-> 0, done |-> FALSE]
    /\ last' = Outcome("iter", d, <<h>>, <<>>, "unit", "", NoError, err[d])
    /\ UNCHANGED <<ctx, oh, err, refs, pages, bufs, uaf, heap, staged>>

\* Iterator::next(): let item = self.inner.get(self.index); self.index += 1;
\* item.  A for loop stops at the first None.
next_stuck(d) ==
    /\ iter # <<>>
    /\ iter.doc = d
    /\ ~iter.done
    /\ QpdfArray_item("next", d, iter.arr, iter.index)
    /\ iter' = [iter EXCEPT !.done = ~get_checked(d, iter.arr, iter.index)]

next(d) ==
    /\ iter # <<>>
    /\ iter.doc = d
    /\ ~iter.done
    /\ QpdfArray_item("next", d, iter.arr, iter.index)
    /\ iter' = [iter EXCEPT !.index = @ + 1,
                            !.done = ~get_checked(d, iter.arr, iter.index)]

\* The iterator goes out of scope.
drop_iter(d) ==
    /\ iter # <<>>
    /\ iter.doc = d
    /\ iter' = <<>>
    /\ last' = Quiet
    /\ UNCHANGED <<ctx, oh, err, refs, pages, bufs, uaf, heap, staged>>

----------------------------------------------------------------------------
\* Stream data.  The engine mallocs the buffer when the call succeeds;
\* QpdfStreamData::new takes it over, and Drop frees it.

\* The tail of get_data and get_page_content_data:
\* last_error_or_then(|| QpdfStreamData::new(buffer, len)).
\* The handle is one of a stream the program made.
IsStream(d, h) == Live(d, h) /\ Cell(d, h) # 0 /\ oh[d][h].ty = "stream"

\* The bytes and the dictionary the engine keeps of the stream behind h.
StreamBytes(d, h) == heap[Cell(d, h)].data

StreamDict(d, h) == heap[Cell(d, h)].dict

\* QpdfStream::get_dictionary / get_stream_dictionary: qpdf_oh_get_dict
\* gives a handle of the stream's dictionary.
get_dictionary(d, h) ==
    /\ IsStream(d, h)
    /\ TotalOh < MaxTable
    /\ oh' = QpdfObject_new(Mint(oh, d, Node("dictof", Cell(d, h)), "dictionary"), d, NextOh(d))
    /\ uaf' = Touch(d)
    /\ last' = Outcome("get_dictionary", d, <<h, NextOh(d)>>, <<>>, "view", "", NoError, err[d])
    /\ UNCHANGED <<ctx, err, refs, pages, bufs, heap, iter, staged>>

\* Qpdf::new_stream_with_dictionary with one entry: new_stream(data), then
\* the entry is set through the stream's dictionary; the dictionary handle
\* and the value handed in are dropped.  set panics on a key with a NUL, and
\* then the stream is dropped with them.
new_stream_with_dictionary(d, key, v, data) ==
    /\ ctx[d] = "alive"
    /\ Live(d, v)
    /\ ~Borrowed(d, v)
    /\ TotalOh + 4 <= MaxTable
    /\ LET n == TotalOh + 1
           h == NextOh(d)
           t1 == NewStream(oh, d, n)
           t2 == QpdfObject_new(Mint(t1, d, Node("dictof", n), "dictionary"), d, h + 3)
           t3 == QpdfObject_drop(QpdfObject_drop(t2, d, h + 3), d, v)
       IN IF HasNul(key)
          THEN /\ oh' = QpdfObject_drop(t3, d, h)
               /\ heap' = [heap EXCEPT ![n] = StreamOf(data, <<>>)]
               /\ last' = Panic("new_stream_with_dictionary", d, <<>>, <<key>>)
          ELSE /\ oh' = t3
               /\ heap' = [heap EXCEPT ![n] = StreamOf(data, Put(<<>>, key, RefOf(d, v)))]
               /\ last' = Outcome("new_stream_with_dictionary", d,
                                  <<h, data, key, RefOf(d, v)>>, <<key>>, "unit", "",
                                  NoError, err[d])
    /\ uaf' = Touch(d)
    /\ UNCHANGED <<ctx, err, refs, pages, bufs, iter, staged>>

\* The body of QpdfStream::replace_data: qpdf_oh_replace_stream_data, whose
\* outcome is not read; the engine fails on an object that is no stream.
ReplaceData(d, h, data, filter, params, kept) ==
    /\ Live(d, h)
    /\ Live(d, filter)
    /\ Live(d, params)
    /\ LET own == IF oh[d][h].ty = "stream" THEN NoError ELSE Raise(qpdf_e_object)
       IN /\ err' = [err EXCEPT ![d] = AfterCall(err[d], own)]
          /\ heap' = IF IsStream(d, h) /\ ~kept
                     THEN [heap EXCEPT ![Cell(d, h)].data = data]
                     ELSE heap
          /\ last' = Outcome("replace_data", d, <<h, data>>, <<>>, "unit", "", own, err[d])
    /\ uaf' = Touch(d)
    /\ UNCHANGED <<ctx, oh, refs, pages, bufs, iter, staged>>

replace_data_kept(d, h, data, filter, params) == ReplaceData(d, h, data, filter, params, TRUE)

replace_data(d, h, data, filter, params) == ReplaceData(d, h, data, filter, params, FALSE)

StreamData(op, d, h, own) ==
    /\ Live(d, h)
    /\ Len(bufs) < MaxBuf
    /\ LET r == last_error_or_then(AfterCall(err[d], own), "data")
       IN /\ bufs' = IF own # NoError THEN bufs
                     ELSE Append(bufs, IF r.ok THEN "owned" ELSE "lost")
          /\ err' = [err EXCEPT ![d] = Consumed(AfterCall(err[d], own))]
          /\ uaf' = Touch(d)
          /\ last' = OfResult(op, d, IF r.ok /\ IsStream(d, h) THEN <<h, StreamBytes(d, h)>>
                                       ELSE <<>>,
                              <<>>, r, own, err[d])
    /\ UNCHANGED <<ctx, oh, refs, pages, heap, iter, staged>>

\* QpdfStream::get_data(decode_level): qpdf_oh_get_stream_data fails on an
\* object that is no stream.
get_data(d, h) ==
    StreamData("get_data", d, h,
               IF Live(d, h) /\ oh[d][h].ty = "stream" THEN NoError ELSE Raise(qpdf_e_object))

\* QpdfDictionary::get_page_content_data: qpdf_oh_get_page_content_data fails
\* on an object that is no page.
get_page_content_data(d, h) ==
    StreamData("get_page_content_data", d, h,
               IF Live(d, h) /\ oh[d][h].node.k = "page" THEN NoError ELSE Raise(qpdf_e_object))

\* impl Drop for QpdfStreamData: libc::free(self.data).
drop_data(b) ==
    /\ b \in 1..Len(bufs)
    /\ bufs[b] = "owned"
    /\ bufs' = [bufs EXCEPT ![b] = "freed"]
    /\ last' = Quiet
    /\ UNCHANGED <<ctx, oh, err, refs, pages, uaf, heap, iter, staged>>

----------------------------------------------------------------------------
\* Objects of another document.  The engine copies a foreign object's graph
\* but keeps reading its stream data from the source context, so the target
\* refers to the source from then on.

Ref(b, via) == [doc |-> b, via |-> via]

\* copy_from_foreign(foreign): qpdf_oh_copy_foreign_object and the handle
\* wrapped; the error state is not read.  The engine refuses an object of the
\* target itself.
copy_from_foreign(a, b, h) ==
    /\ ctx[a] = "alive"
    /\ Live(b, h)
    /\ TotalOh < MaxTable
    /\ LET own == IF a = b THEN Raise(qpdf_e_internal) ELSE NoError
           minted == IF a = b
                     THEN Mint(oh, a, Node("uninit", 0), "uninitialized")
                     ELSE Mint(oh, a, Node("obj", TotalOh + 1), oh[b][h].ty)
       IN /\ oh' = QpdfObject_new(minted, a, NextOh(a))
          /\ err' = [err EXCEPT ![a] = AfterCall(err[a], own)]
          /\ refs' = IF a = b THEN refs ELSE [refs EXCEPT ![a] = @ \cup {Ref(b, "copy")}]
          /\ last' = Quiet
    /\ uaf' = Touch(b)
    /\ UNCHANGED <<ctx, pages, bufs, heap, iter, staged>>

\* add_page(new_page, first): wrap_ffi_call(qpdf_add_page); the engine copies
\* a page of another document as copy_from_foreign does, and refuses an object
\* that is no dictionary.
\* The numbers of the page objects d holds: those in its page tree and those
\* its handles refer to. The engine numbers a new object past every object
\* of the document; the model takes the least number that neither the page
\* tree nor a handle refers to.
PageNumbers(d) ==
    {pages[d][i].n : i \in {j \in 1..Len(pages[d]) : pages[d][j].k = "page"}}
        \cup {oh[d][g].node.n : g \in {j \in 1..Len(oh[d]) : oh[d][j].node.k = "page"}}

NextPage(d) ==
    CHOOSE k \in 0..MaxPages + MaxTable :
        k \notin PageNumbers(d) /\ \A j \in 0..k - 1 : j \in PageNumbers(d)

\* The object qpdf_add_page puts into a's page tree: the object itself when
\* it is an indirect object of the document that the tree does not refer to
\* yet; a new object otherwise: a direct object is made indirect, a page of
\* another document is copied, a page already in the tree is copied shallowly.
NewPage(a, b, h) ==
    LET node == oh[b][h].node
    IN IF a = b /\ node.k \in {"page", "ind", "root"} /\ ~InTree(a, node)
       THEN node
       ELSE Node("page", NextPage(a))

\* qpdf_add_page: the page goes to the front or to the end of the tree.
qpdf_add_page(a, b, h, first) ==
    IF first THEN <<NewPage(a, b, h)>> \o pages[a] ELSE pages[a] \o <<NewPage(a, b, h)>>

\* The body of Qpdf::add_page: wrap_ffi_call(qpdf_add_page) with the flag
\* handed to the engine.
AddPage(a, b, h, first, flag) ==
    /\ ctx[a] = "alive"
    /\ Live(b, h)
    /\ NextPage(a) < MaxPages
    /\ LET isPage == oh[b][h].ty = "dictionary"
           own == IF isPage THEN NoError ELSE Raise(qpdf_e_pages)
           r == last_error_or_then(AfterCall(err[a], own), "unit")
       IN /\ pages' = IF isPage THEN [pages EXCEPT ![a] = qpdf_add_page(a, b, h, flag)]
                      ELSE pages
          /\ refs' = IF isPage /\ a # b THEN [refs EXCEPT ![a] = @ \cup {Ref(b, "page")}]
                     ELSE refs
          /\ err' = [err EXCEPT ![a] = Consumed(AfterCall(err[a], own))]
          /\ last' = OfResult("add_page", a, <<a = b, h, first, pages[a]>>, <<>>, r, own, err[a])
    /\ uaf' = Touch(b)
    /\ UNCHANGED <<ctx, oh, bufs, heap, iter, staged>>

add_page_front(a, b, h, first) == AddPage(a, b, h, first, TRUE)

\* Qpdf::add_page hands first.into() to the engine.
add_page(a, b, h, first) == AddPage(a, b, h, first, first)

\* The tree without the object.
WithoutPage(t, node) == SelectSeq(t, LAMBDA x : x # node)

\* Qpdf::remove_page: wrap_ffi_call(qpdf_remove_page). The engine fails when
\* the page tree does not refer to the object.
remove_page(d, h) ==
    /\ ctx[d] = "alive"
    /\ Live(d, h)
    /\ LET node == oh[d][h].node
           own == IF InTree(d, node) THEN NoError ELSE Raise(qpdf_e_pages)
           r == last_error_or_then(AfterCall(err[d], own), "unit")
       IN /\ pages' = [pages EXCEPT ![d] = WithoutPage(@, node)]
          /\ err' = [err EXCEPT ![d] = Consumed(AfterCall(err[d], own))]
          /\ last' = OfResult("remove_page", d, <<h, pages[d]>>, <<>>, r, own, err[d])
    /\ UNCHANGED <<ctx, oh, refs, bufs, uaf, heap, iter, staged>>

\* The handles get_pages collects: get_page for every index below the count.
RECURSIVE Collect(_, _, _)
Collect(t, d, i) ==
    IF i >= num_pages(d) THEN t
    ELSE Collect(QpdfObject_new(Mint(t, d, pages[d][i + 1], "dictionary"), d, Len(t[d]) + 1),
                 d, i + 1)

\* Qpdf::get_pages: Ok((0..get_num_pages()?).map(get_page).flatten().collect()).
get_pages(d) ==
    /\ ctx[d] = "alive"
    /\ TotalOh + num_pages(d) <= MaxTable
    /\ LET r == last_error_or_then(AfterCall(err[d], NoError), "vec")
       IN /\ oh' = IF r.ok THEN Collect(oh, d, 0) ELSE oh
          /\ err' = [err EXCEPT ![d] = Consumed(err[d])]
          /\ last' = OfResult("get_pages", d, <<Len(oh[d])>>, <<>>, r, NoError, err[d])
    /\ UNCHANGED <<ctx, refs, pages, bufs, uaf, heap, iter, staged>>

----------------------------------------------------------------------------
\* Queries on a handle.

\* The type codes of the engine that QpdfObjectType names.
TypeCodes ==
    {"uninitialized", "reserved", "null", "boolean", "integer", "real", "string", "name",
     "array", "dictionary", "stream", "operator", "inlineimage"}

\* QpdfObjectType::from_qpdf_enum: one variant for each code, a panic for
\* any other number.
from_qpdf_enum(obj_t) == IF obj_t \in TypeCodes THEN obj_t ELSE "panic"

\* The answer of qpdf_oh_is_<kind> for an object of type ty.
qpdf_oh_is(kind, ty) ==
    IF kind = "initialized" THEN ty # "uninitialized"
    ELSE IF kind = "scalar"
    THEN ty \notin {"array", "dictionary", "stream", "operator", "inlineimage"}
    ELSE ty = kind

\* The kinds asked for.
Kinds == {"null", "dictionary", "initialized", "scalar"}

\* A query: the engine is called and its answer is returned; the error state
\* is neither read nor written.
Query(op, d, h, answer, e) ==
    /\ Live(d, h)
    /\ err' = [err EXCEPT ![d] = e]
    /\ uaf' = Touch(d)
    /\ last' = Outcome(op, d, <<h, oh[d][h].ty, err[d]>>, <<>>, answer, "", NoError, err[d])
    /\ UNCHANGED <<ctx, oh, refs, pages, bufs, heap, iter, staged>>

get_type_read(d, h) == Query("get_type", d, h, from_qpdf_enum(oh[d][h].ty), Consumed(err[d]))

\* QpdfObject::get_type: from_qpdf_enum(qpdf_oh_get_type_code(..)).
get_type(d, h) == Query("get_type", d, h, from_qpdf_enum(oh[d][h].ty), err[d])

\* QpdfObject::is_null, is_dictionary, is_initialized, is_scalar, ..:
\* qpdf_oh_is_<kind>(..) != 0.
is(d, h, kind) ==
    Query("is", d, h, IF qpdf_oh_is(kind, oh[d][h].ty) THEN "true" ELSE "false", err[d])

----------------------------------------------------------------------------
\* Writing.

\* The contexts d's pages read their stream data from that are released.
Dangling(d) == {r \in refs[d] : r.via = "page" /\ ctx[r.doc] = "released"}

\* QPdfWriter::write_to_memory with no parameter set:
\* wrap_ffi_call(qpdf_init_write_memory)?, process_params()?,
\* wrap_ffi_call(qpdf_write)?, then the engine's buffer copied into a Vec.
\* qpdf_write reads the stream data of every page; reading it from a released
\* context is undefined, and the call may succeed, fail or crash.
write_to_memory(d, undefined) ==
    /\ ctx[d] = "alive"
    /\ LET init == last_error_or_then(AfterCall(err[d], NoError), "unit")
       IN IF ~init.ok
          THEN /\ last' = OfResult("write_to_memory", d, <<>>, <<>>, init, NoError, err[d])
               /\ uaf' = uaf
          ELSE IF Dangling(d) = {}
          THEN /\ last' = OfResult("write_to_memory", d, <<num_pages(d)>>, <<>>,
                                   last_error_or_then(NoError, "bytes"), NoError, err[d])
               /\ uaf' = uaf
          ELSE /\ last' = Outcome("write_to_memory", d,
                                  IF undefined = "ok" THEN <<num_pages(d)>> ELSE <<>>, <<>>,
                                  undefined,
                                  IF undefined = "err" THEN error_or_ok(qpdf_e_internal) ELSE "",
                                  IF undefined = "err" THEN Raise(qpdf_e_internal) ELSE NoError,
                                  err[d])
               /\ uaf' = uaf \cup {"foreign"}
    /\ err' = [err EXCEPT ![d] = Consumed(err[d])]
    /\ UNCHANGED <<ctx, oh, refs, pages, bufs, heap, iter, staged>>

\* Qpdf::load_from_memory of the Vec the last write_to_memory returned: the
\* file read back has the pages the writer wrote.
load_from_memory(d) ==
    /\ Fresh(d)
    /\ last.op = "write_to_memory"
    /\ last.res = "ok"
    /\ LET r == do_load_memory("plain", <<>>)
       IN /\ ctx' = [ctx EXCEPT ![d] = AfterLoad(r)]
          /\ pages' = [pages EXCEPT ![d] = IF r.ok THEN PagesOfFile(last.arg[1]) ELSE <<>>]
          /\ last' = OfResult("load_from_memory", d, <<last.doc>>, <<>>, r,
                              qpdf_read("plain", raw_password(<<>>)), NoError)
    /\ UNCHANGED <<oh, err, refs, bufs, uaf, heap, iter, staged>>

----------------------------------------------------------------------------
\* The error translator on its own.

\* The detail messages the engine attaches: none, text, bytes that are not UTF-8.
Details == {<<>>, <<<<69>>>>, <<<<BadUtf8>>>>}

\* The records the engine can leave pending; it records no error with the
\* success code.
EngineErrors ==
    {EngineError(code, detail, position) :
        code \in (qpdf_e_success + 1)..MaxCode, detail \in Details, position \in 0..MaxPos}

\* wrap_ffi_call(f): f(), then last_error_or_then(|| ()); own is what the
\* engine call f makes records.  The outcome keeps the record read and the
\* Result built from it.
wrap_ffi_call(d, own) ==
    /\ ctx[d] = "alive"
    /\ LET e == AfterCall(err[d], own)
           r == last_error_or_then(e, "unit")
       IN /\ err' = [err EXCEPT ![d] = Consumed(e)]
          /\ last' = OfResult("wrap_ffi_call", d, <<e, r>>, <<>>, r, own, err[d])
    /\ UNCHANGED <<ctx, oh, refs, pages, bufs, uaf, heap, iter, staged>>

\* error_or_ok(error) applied to one code of the engine's enum.
translate(error) ==
    /\ last' = [NoResult EXCEPT !.op = "error_or_ok", !.arg = <<error>>,
                                !.res = IF error_or_ok(error) = "Ok" THEN "ok" ELSE "err",
                                !.code = error_or_ok(error)]
    /\ UNCHANGED <<ctx, oh, err, refs, pages, bufs, uaf, heap, iter, staged>>

----------------------------------------------------------------------------
\* The writer.

\* The versions the engine accepts: those that are the byte 65.
ValidVersion(v) == v = <<65>>

\* One stage of process_params for a field that is Some(v), with e pending:
\* a flag is handed to the engine, which cannot refuse it, and the error
\* state is not read; a version or the passwords go through CString::new(..)?
\* and then through wrap_ffi_call(..)?.  called: the engine's setter was
\* called; r: the stage's Result; e: what is pending after it.
Setter_lenient(f, v, e) ==
    [called |-> TRUE, r |-> [ok |-> TRUE, value |-> "unit"], e |-> e]

Setter(f, v, e) ==
    IF f \in Flags THEN [called |-> TRUE, r |-> [ok |-> TRUE, value |-> "unit"], e |-> e]
    ELSE IF HasNul(v) THEN [called |-> FALSE, r |-> FromNulError, e |-> e]
    ELSE LET own == IF f \in Versions /\ ~ValidVersion(v) THEN Raise(qpdf_e_internal)
                    ELSE NoError
         IN [called |-> TRUE,
             r |-> last_error_or_then(AfterCall(e, own), "unit"),
             e |-> Consumed(AfterCall(e, own))]

\* process_params(): the stages of the fields from the i-th on, each ended by
\* `?`.  trace: the engine's setters called, in order; applied: the fields
\* the engine's writer state took.
RECURSIVE process_params(_, _, _)
process_params_none(i, st, e) ==
    [trace |-> <<>>, applied |-> {}, r |-> [ok |-> TRUE, value |-> "unit"], e |-> e]

process_params(i, st, e) ==
    IF i > Len(Fields) THEN [trace |-> <<>>, applied |-> {}, r |-> [ok |-> TRUE, value |-> "unit"],
                             e |-> e]
    ELSE IF st[Fields[i]] = <<>> THEN process_params(i + 1, st, e)
    ELSE LET f == Fields[i]
             one == Setter(f, st[f][1], e)
             rest == process_params(i + 1, st, one.e)
         IN IF ~one.r.ok
            THEN [trace |-> IF one.called THEN <<f>> ELSE <<>>, applied |-> {}, r |-> one.r,
                  e |-> one.e]
            ELSE [trace |-> <<f>> \o rest.trace, applied |-> {f} \cup rest.applied,
                  r |-> rest.r, e |-> rest.e]

\* QPdfWriter::write(path) and write_to_memory(): CString::new(path)? for a
\* file, wrap_ffi_call(qpdf_init_write / qpdf_init_write_memory)?,
\* process_params()?, wrap_ffi_call(qpdf_write)?, and for memory the engine's
\* buffer read.  init_own and write_own are what the two engine calls record.
Run(target, path, st, e, init_own, write_own) ==
    IF target = "file" /\ HasNul(path)
    THEN [trace |-> <<>>, applied |-> {}, r |-> FromNulError, e |-> e]
    ELSE LET init == last_error_or_then(AfterCall(e, init_own), "unit")
             params == process_params(1, st, Consumed(AfterCall(e, init_own)))
             commit == last_error_or_then(AfterCall(params.e, write_own), "unit")
         IN IF ~init.ok
            THEN [trace |-> <<"init">>, applied |-> {}, r |-> init,
                  e |-> Consumed(AfterCall(e, init_own))]
            ELSE IF ~params.r.ok
            THEN [trace |-> <<"init">> \o params.trace, applied |-> params.applied,
                  r |-> params.r, e |-> params.e]
            ELSE [trace |-> <<"init">> \o params.trace \o <<"write">> \o
                            (IF commit.ok /\ target = "memory" THEN <<"get_buffer">> ELSE <<>>),
                  applied |-> params.applied,
                  r |-> commit,
                  e |-> Consumed(AfterCall(params.e, write_own))]

QPdfWriter_write(d, target, path, init_own, write_own) ==
    /\ ctx[d] = "alive"
    /\ LET run == Run(target, path, staged, err[d], init_own, write_own)
       IN /\ err' = [err EXCEPT ![d] = run.e]
          /\ last' = OfResult("write", d, <<target, run.trace, run.applied>>,
                               IF target = "file" THEN <<path>> ELSE <<>>, run.r,
                               AfterCall(init_own, write_own), err[d])
    /\ UNCHANGED <<ctx, oh, refs, pages, bufs, uaf, heap, iter, staged>>

\* A setter of the writer: self.field = Some(value).  The record keeps the
\* field, the value and the other fields as they were.
stage_all(f, v) ==
    /\ staged' = [g \in FieldSet |-> <<v>>]
    /\ last' = Outcome("stage", 0, <<f, v, [g \in FieldSet \ {f} |-> staged[g]]>>, <<>>,
                       "unit", "", NoError, NoError)
    /\ UNCHANGED <<ctx, oh, err, refs, pages, bufs, uaf, heap, iter>>

stage(f, v) ==
    /\ staged' = [staged EXCEPT ![f] = <<v>>]
    /\ last' = Outcome("stage", 0, <<f, v, [g \in FieldSet \ {f} |-> staged[g]]>>, <<>>,
                       "unit", "", NoError, NoError)
    /\ UNCHANGED <<ctx, oh, err, refs, pages, bufs, uaf, heap, iter>>

\* A new writer of the document replaces the one in use.
writer(d) ==
    /\ ctx[d] = "alive"
    /\ staged' = QPdfWriter_new
    /\ last' = Quiet
    /\ UNCHANGED <<ctx, oh, err, refs, pages, bufs, uaf, heap, iter>>

----------------------------------------------------------------------------
\* The inputs of the model.

Bytes == {NUL, 65}

RECURSIVE StrsOfLen(_)
StrsOfLen(n) ==
    IF n = 0 THEN {<<>>}
    ELSE {Append(s, b) : s \in StrsOfLen(n - 1), b \in Bytes}

Strs == UNION {StrsOfLen(n) : n \in 0..MaxStr}

Passwords == {<<>>} \cup {<<p>> : p \in Strs}

Types == {"integer", "dictionary"}
Scalars == {"integer"}

\* The keys without a NUL, the indexes a program asks for (those of the
\* longest array and one past them), and the typed views.
Keys == {s \in Strs : ~HasNul(s)}
Indexes == 0..MaxLen
Views == {"array", "dictionary", "stream"}

\* A load of the plain file, the document every part of the model starts with.
LoadPlain(d) == Load(d, "file", <<65>>, "plain", <<>>)

\* Documents, handles and lookups.
Next ==
    \/ \E d \in Docs : New(d)
    \/ \E d \in Docs : LoadPlain(d)
    \/ \E d \in Docs : DropDoc(d)
    \/ \E d \in Docs, ty \in Types : TotalOh < MaxOh /\ new_object(d, ty)
    \/ \E d \in Docs : TotalOh + 3 <= MaxOh /\ new_stream(d, <<>>)
    \/ \E d \in Docs, h \in 1..MaxOh : TotalOh < MaxOh /\ clone(d, h)
    \/ \E d \in Docs, h \in 1..MaxOh : drop(d, h)
    \/ \E d \in Docs, h \in 1..MaxOh : TotalOh < MaxOh /\ into_indirect(d, h)
    \/ \E d \in Docs, i \in 0..MaxPages : TotalOh < MaxOh /\ get_page(d, i)
    \/ \E d \in Docs : TotalOh < MaxOh /\ get_root(d)
    \/ \E d \in Docs, obj_id \in {1, NeverId} : TotalOh < MaxOh /\ get_object_by_id(d, obj_id, 0)
    \/ \E d \in Docs, object \in Strs : TotalOh < MaxOh /\ parse_object(d, object)
    \/ \E d \in Docs, h \in 1..MaxOh, key \in Strs, present \in BOOLEAN :
          TotalOh < MaxOh /\ QpdfDictionary_get(d, h, key, present)

Spec == Init /\ [][Next]_vars

\* Objects and pages of another document, and writing.
NextForeign ==
    \/ \E d \in Docs : New(d)
    \/ \E d \in Docs : LoadPlain(d)
    \/ \E d \in Docs : DropDoc(d)
    \/ \E d \in Docs, h \in 1..MaxOh : drop(d, h)
    \/ \E d \in Docs, i \in {0, MaxPages} : TotalOh < MaxOh /\ get_page(d, i)
    \/ \E a \in Docs, b \in Docs, h \in 1..MaxOh : TotalOh < MaxOh /\ copy_from_foreign(a, b, h)
    \/ \E a \in Docs, b \in Docs, h \in 1..MaxOh :
          num_pages(a) < MaxPages - 1 /\ add_page(a, b, h, FALSE)
    \/ \E d \in Docs : get_num_pages(d)
    \/ \E d \in Docs, undefined \in {"ok", "err", "crash"} : write_to_memory(d, undefined)

SpecForeign == Init /\ [][NextForeign]_vars

\* The error state belongs to one context: one document is enough for what
\* follows.
One == {1}

\* Unchecked and checked calls, and stream data.
NextError ==
    \/ \E d \in One : New(d)
    \/ \E d \in One : LoadPlain(d)
    \/ \E d \in One : DropDoc(d)
    \/ \E d \in One, ty \in Scalars : TotalOh < MaxOh /\ new_object(d, ty)
    \/ \E d \in One : TotalOh + 3 <= MaxOh /\ new_stream(d, <<>>)
    \/ \E d \in One, h \in 1..MaxOh : drop(d, h)
    \/ \E d \in One, i \in {0, MaxPages} : TotalOh < MaxOh /\ get_page(d, i)
    \/ \E d \in One, h \in 1..MaxOh, key \in Strs : QpdfDictionary_has(d, h, key)
    \/ \E d \in One, h \in 1..MaxOh, v \in 1..MaxOh, key \in Strs :
          QpdfDictionary_set(d, h, key, v)
    \/ \E d \in One, h \in 1..MaxOh, key \in Strs : QpdfDictionary_remove(d, h, key)
    \/ \E d \in One, h \in 1..MaxOh : get_data(d, h)
    \/ \E d \in One, h \in 1..MaxOh : get_page_content_data(d, h)
    \/ \E b \in 1..MaxBuf : drop_data(b)
    \/ \E d \in One : get_num_pages(d)

SpecError == Init /\ [][NextError]_vars

\* Loads and the operations that take a string.
NextInput ==
    \/ \E d \in One : New(d)
    \/ \E d \in One, path \in Strs, file \in Files, password \in Passwords :
          Load(d, "file", path, file, password)
    \/ \E d \in One, file \in Files, password \in Passwords :
          Load(d, "memory", <<>>, file, password)
    \/ \E d \in One : DropDoc(d)
    \/ \E d \in One, value \in Strs : TotalOh < MaxOh /\ new_name(d, value)
    \/ \E d \in One, h \in 1..MaxOh : drop(d, h)
    \/ \E d \in One, object \in Strs : TotalOh < MaxOh /\ parse_object(d, object)
    \/ \E d \in One, h \in 1..MaxOh, kind \in Views : From(d, h, kind)
    \/ \E d \in One, h \in 1..MaxOh, key \in Strs, present \in BOOLEAN :
          TotalOh < MaxOh /\ QpdfDictionary_get(d, h, key, present)
    \/ \E d \in One, h \in 1..MaxOh, key \in Strs : QpdfDictionary_has(d, h, key)
    \/ \E d \in One, h \in 1..MaxOh, v \in 1..MaxOh, key \in Strs :
          QpdfDictionary_set(d, h, key, v)
    \/ \E d \in One, h \in 1..MaxOh, key \in Strs : QpdfDictionary_remove(d, h, key)
    \/ \E d \in One : get_num_pages(d)

SpecInput == Init /\ [][NextInput]_vars

\* The error translator: any record the engine can leave, and every code.
NextTranslate ==
    \/ \E d \in One : New(d)
    \/ \E d \in One : DropDoc(d)
    \/ \E d \in One, ty \in Types : TotalOh < MaxOh /\ new_object(d, ty)
    \/ \E d \in One, h \in 1..MaxOh : drop(d, h)
    \/ \E d \in One, h \in 1..MaxOh, key \in Strs : QpdfDictionary_remove(d, h, key)
    \/ \E d \in One, own \in {NoError} \cup EngineErrors : wrap_ffi_call(d, own)
    \/ \E error \in 0..MaxCode : translate(error)

SpecTranslate == Init /\ [][NextTranslate]_vars

\* Dictionaries a program builds in one document; the objects it makes
\* itself are the first MaxMade of the document.
NextDict ==
    \/ \E d \in One : New(d)
    \/ \E d \in One : DropDoc(d)
    \/ \E d \in One, ty \in {"dictionary", "null"} :
          Len(oh[d]) < MaxMade /\ TotalOh < MaxOh /\ new_object(d, ty)
    \/ \E d \in One, h \in 1..MaxOh : drop(d, h)
    \/ \E d \in One, h \in 1..MaxOh, key \in Keys : TotalOh < MaxOh /\ QpdfDictionary_get(d, h, key, FALSE)
    \/ \E d \in One, h \in 1..MaxOh, key \in Keys, v \in 1..MaxOh :
          QpdfDictionary_set(d, h, key, v)
    \/ \E d \in One, h \in 1..MaxOh, key \in Keys : QpdfDictionary_remove(d, h, key)

SpecDict == Init /\ [][NextDict]_vars

\* Handles of two documents, compared.
NextEq ==
    \/ \E d \in Docs : New(d)
    \/ \E d \in Docs : DropDoc(d)
    \/ \E d \in Docs, ty \in Scalars : TotalOh < MaxOh /\ new_object(d, ty)
    \/ \E d \in Docs, h \in 1..MaxOh : TotalOh < MaxOh /\ clone(d, h)
    \/ \E d \in Docs, h \in 1..MaxOh : drop(d, h)
    \/ \E a \in Docs, b \in Docs, h \in 1..MaxOh, g \in 1..MaxOh : eq(a, h, b, g)

SpecEq == Init /\ [][NextEq]_vars

\* Objects of one document, promoted and looked up by their ids.
Ids == 0..NeverId

NextId ==
    \/ \E d \in One : New(d)
    \/ \E d \in One : LoadPlain(d)
    \/ \E d \in One : DropDoc(d)
    \/ \E d \in One, ty \in {"integer", "null"} : TotalOh < MaxOh /\ new_object(d, ty)
    \/ \E d \in One, h \in 1..MaxOh : drop(d, h)
    \/ \E d \in One, h \in 1..MaxOh : TotalOh < MaxOh /\ into_indirect(d, h)
    \/ \E d \in One, obj_id \in Ids, gen \in {0, 1} : TotalOh < MaxOh /\ get_object_by_id(d, obj_id, gen)

SpecId == Init /\ [][NextId]_vars

\* A writer of one document, configured and run.
NextWriter ==
    \/ \E d \in One : New(d)
    \/ \E d \in One : writer(d)
    \/ \E f \in Flags, v \in BOOLEAN : stage(f, v)
    \/ \E f \in FieldSet \ Flags, v \in Strs : stage(f, v)
    \/ \E d \in One, path \in Strs, init_own \in {NoError, Raise(qpdf_e_system)},
          write_own \in {NoError, Raise(qpdf_e_internal)} :
          QPdfWriter_write(d, "file", path, init_own, write_own)
    \/ \E d \in One, write_own \in {NoError, Raise(qpdf_e_internal)} :
          QPdfWriter_write(d, "memory", <<>>, NoError, write_own)

SpecWriter == Init /\ [][NextWriter]_vars

\* Arrays a program builds in one document.
NextArray ==
    \/ \E d \in One : New(d)
    \/ \E d \in One : DropDoc(d)
    \/ \E d \in One, ty \in {"array", "null"} : Len(oh[d]) < MaxMade /\ TotalOh < MaxOh /\ new_object(d, ty)
    \/ \E d \in One, h \in 1..MaxOh : drop(d, h)
    \/ \E d \in One, h \in 1..MaxOh : QpdfArray_len(d, h)
    \/ \E d \in One, h \in 1..MaxOh, index \in Indexes : QpdfArray_get(d, h, index) /\ Within'
    \/ \E d \in One, h \in 1..MaxOh, v \in 1..MaxOh : push(d, h, v)
    \/ \E d \in One, h \in 1..MaxOh, index \in Indexes, v \in 1..MaxOh : set(d, h, index, v)
    \/ \E d \in One, h \in 1..MaxOh, index \in Indexes, v \in 1..MaxOh : insert(d, h, index, v)
    \/ \E d \in One, h \in 1..MaxOh, index \in Indexes : remove(d, h, index)

SpecArray == Init /\ [][NextArray]_vars

\* Loops over the arrays of one document.
NextIter ==
    \/ \E d \in One : New(d)
    \/ \E d \in One : DropDoc(d)
    \/ \E d \in One, ty \in {"array", "null"} : Len(oh[d]) < MaxMade /\ TotalOh < MaxOh /\ new_object(d, ty)
    \/ \E d \in One, h \in 1..MaxOh : drop(d, h)
    \/ \E d \in One, h \in 1..MaxOh, v \in 1..MaxOh : push(d, h, v)
    \/ \E d \in One, h \in 1..MaxOh : QpdfArray_iter(d, h)
    \/ \E d \in One : next(d) /\ Within'
    \/ \E d \in One : drop_iter(d)

SpecIter == Init /\ [][NextIter]_vars

\* Pages added to their own document, written, read back and removed.
NextPages ==
    \/ \E d \in Docs : LoadPlain(d)
    \/ \E d \in Docs : TotalOh + num_pages(d) <= MaxOh /\ get_pages(d)
    \/ \E d \in Docs, h \in 1..MaxOh, first \in BOOLEAN : add_page(d, d, h, first)
    \/ \E d \in Docs, h \in 1..MaxOh : remove_page(d, h)
    \/ \E d \in Docs : get_num_pages(d)
    \/ \E d \in Docs : write_to_memory(d, "ok")
    \/ \E d \in Docs : load_from_memory(d)

SpecPages == Init /\ [][NextPages]_vars

\* Handles of one object, and changes made through one of them.
NextAlias ==
    \/ \E d \in One : New(d)
    \/ \E d \in One, ty \in {"dictionary", "array"} :
          Len(oh[d]) < MaxMade /\ TotalOh < MaxOh /\ new_object(d, ty)
    \/ \E d \in One, h \in 1..MaxOh : TotalOh < MaxOh /\ clone(d, h)
    \/ \E d \in One, h \in 1..MaxOh : drop(d, h)
    \/ \E d \in One, h \in 1..MaxOh, key \in Keys, v \in 1..MaxOh :
          QpdfDictionary_set(d, h, key, v)
    \/ \E d \in One, h \in 1..MaxOh, key \in Keys : QpdfDictionary_remove(d, h, key)
    \/ \E d \in One, h \in 1..MaxOh, v \in 1..MaxOh : push(d, h, v)
    \/ \E d \in One, h \in 1..MaxOh, v \in 1..MaxOh : insert(d, h, 0, v)

SpecAlias == Init /\ [][NextAlias]_vars

\* Queries on handles while an error is pending or not.
NextQuery ==
    \/ \E d \in Docs : New(d)
    \/ \E d \in Docs, ty \in {"integer", "dictionary", "null"} :
          Len(oh[d]) < MaxMade /\ TotalOh < MaxOh /\ new_object(d, ty)
    \/ \E d \in Docs, i \in {0, MaxPages} : TotalOh < MaxOh /\ get_page(d, i)
    \/ \E d \in Docs, h \in 1..MaxOh : drop(d, h)
    \/ \E d \in Docs, h \in 1..MaxOh, key \in Keys : QpdfDictionary_remove(d, h, key)
    \/ \E d \in Docs, h \in 1..MaxOh : get_type(d, h)
    \/ \E d \in Docs, h \in 1..MaxOh, kind \in Kinds : is(d, h, kind)

SpecQuery == Init /\ [][NextQuery]_vars

\* Streams made, overwritten, read, and found again by their ids.
NextStream ==
    \/ \E d \in One : New(d)
    \/ \E d \in One, ty \in {"integer", "null"} : oh[d] = <<>> /\ new_object(d, ty)
    \/ \E d \in One, data \in Strs : new_stream(d, data)
    \/ \E d \in One, key \in Strs, v \in 1..MaxTable, data \in Strs :
          new_stream_with_dictionary(d, key, v, data)
    \/ \E d \in One, h \in 1..MaxTable, data \in Strs, filter \in 1..MaxTable :
          IsStream(d, h) /\ replace_data(d, h, data, filter, filter)
    \/ \E d \in One, h \in 1..MaxTable : get_data(d, h)
    \/ \E b \in 1..MaxBuf : drop_data(b)
    \/ \E d \in One, h \in 1..MaxTable : get_dictionary(d, h)
    \/ \E d \in One, h \in 1..MaxTable, key \in Keys : QpdfDictionary_get(d, h, key, FALSE)
    \/ \E d \in One, h \in 1..MaxTable :
          Live(d, h) /\ get_object_by_id(d, get_id(d, h), get_generation(d, h))

SpecStream == Init /\ [][NextStream]_vars

\* Lookups in a document while an error is pending or not.
NextLookup ==
    \/ \E d \in One : New(d)
    \/ \E d \in One : LoadPlain(d)
    \/ \E d \in One, ty \in Scalars : Len(oh[d]) < MaxMade /\ new_object(d, ty)
    \/ \E d \in One, h \in 1..MaxOh : drop(d, h)
    \/ \E d \in One, h \in 1..MaxOh, key \in Keys : QpdfDictionary_remove(d, h, key)
    \/ \E d \in One, i \in {0, FilePages, MaxPages} : TotalOh < MaxOh /\ get_page(d, i)
    \/ \E d \in One : TotalOh < MaxOh /\ get_trailer(d)
    \/ \E d \in One : TotalOh < MaxOh /\ get_root(d)
    \/ \E d \in One, obj_id \in {1, NeverId} :
          TotalOh < MaxOh /\ get_object_by_id(d, obj_id, 0)
    \/ \E d \in One : get_num_pages(d)

SpecLookup == Init /\ [][NextLookup]_vars

----------------------------------------------------------------------------
\* Handles and the documents that own them (Spec).

\* C1: every live handle belongs to a document whose engine context is not
\* released, so a context is released only once every handle derived from it
\* was dropped, and no engine call is made with a handle of a released context.
C1_OwnerOutlivesHandles ==
    /\ \A dh \in Handles : ctx[dh[1]] = "alive"
    /\ "handle" \notin uaf

\* A document was released after its handles were dropped, while another
\* document still has a live handle.
C1_ReleasedAfterHandles ==
    \E d \in Docs, e \in Docs :
        /\ ctx[d] = "released"
        /\ \E h \in 1..Len(oh[d]) : oh[d][h].released = 1
        /\ \E h \in 1..Len(oh[e]) : Live(e, h)

\* C4: every handle the binding obtained from the engine is owned by exactly
\* one wrapper or was released exactly once; none is released twice and none
\* is discarded without a release.
C4_ReleasedExactlyOnce ==
    \A d \in Docs : \A h \in 1..Len(oh[d]) :
        /\ oh[d][h].released <= 1
        /\ oh[d][h].wrapped + oh[d][h].released = 1

----------------------------------------------------------------------------
\* Objects of another document (SpecForeign).

\* C2: once an object of document B was copied into document A, B's engine
\* context is not released while A is alive.
C2_SourceKeptAlive ==
    \A a \in Docs : ctx[a] = "alive" =>
        \A r \in refs[a] : r.via = "copy" => ctx[r.doc] # "released"

\* C3: a write of a document that holds a page of another, dropped, document
\* reads no released context, and it succeeds with the document's page count.
C3_WriteAfterSourceDropped ==
    /\ "foreign" \notin uaf
    /\ \A d \in Docs :
          (/\ last.op = "write_to_memory"
           /\ last.doc = d
           /\ ~last.stale
           /\ \E r \in refs[d] : r.via = "page" /\ ctx[r.doc] = "released")
          => last.res = "ok" /\ last.arg = <<num_pages(d)>>

----------------------------------------------------------------------------
\* Stream buffers and stale errors (SpecError).

\* C5: every buffer the engine handed back is owned by one QpdfStreamData or
\* was freed by its drop; none is left without an owner.
C5_BufferOwnedOrFreed ==
    \A b \in 1..Len(bufs) : bufs[b] \in {"owned", "freed"}

\* C7: an Err reports an error that the operation's own engine call raised.
C7_ErrIsOwn ==
    last.res = "err" => last.raised

----------------------------------------------------------------------------
\* The error translator (SpecTranslate).

\* enum QpdfErrorCode: the kinds of the seven known codes, in the order of
\* the codes.
KnownKinds ==
    <<"InternalError", "SystemError", "Unsupported", "InvalidPassword",
      "DamagedPdf", "PagesError", "ObjectError">>

\* C6: a wrapped call returns Ok with the call's value when no error is
\* pending after it; otherwise it returns Err with the kind of the record's
\* code, the record's detail message as text when there is one, and the
\* record's file position, and the call's value is not returned.
C6_WrappedCall ==
    last.op = "wrap_ffi_call" =>
        LET e == last.arg[1]
            r == last.arg[2]
        IN IF ~qpdf_has_error(e)
           THEN r = [ok |-> TRUE, value |-> "unit"]
           ELSE /\ ~r.ok
                /\ "value" \notin DOMAIN r
                /\ r.error_code = IF e[1].code \in 1..Len(KnownKinds)
                                  THEN KnownKinds[e[1].code] ELSE "Unknown"
                /\ Len(r.description) = Len(e[1].detail)
                /\ \A i \in 1..Len(e[1].detail) :
                      /\ Len(r.description[i]) = Len(e[1].detail[i])
                      /\ \A j \in 1..Len(e[1].detail[i]) :
                            \/ r.description[i][j] = e[1].detail[i][j]
                            \/ /\ e[1].detail[i][j] = BadUtf8
                               /\ r.description[i][j] = ReplacementChar
                /\ r.position = <<e[1].position>>

\* A wrapped call failed with a record that has a detail message.
C6_ErrWithDetail ==
    /\ last.op = "wrap_ffi_call"
    /\ last.res = "err"
    /\ last.arg[1][1].detail # <<>>
    /\ last.arg[1][1].position > 0

\* C8: the success code gives Ok, each of the seven known codes its own kind,
\* and every other code Unknown.
C8_MappingTotal ==
    /\ \A i, j \in 1..Len(KnownKinds) : KnownKinds[i] = KnownKinds[j] => i = j
    /\ last.op = "error_or_ok" =>
          LET c == last.arg[1]
          IN /\ c = qpdf_e_success => last.res = "ok"
             /\ c \in 1..Len(KnownKinds) => last.res = "err" /\ last.code = KnownKinds[c]
             /\ c > Len(KnownKinds) => last.res = "err" /\ last.code = "Unknown"

\* A code past the known ones was mapped.
C8_UnknownMapped ==
    last.op = "error_or_ok" /\ last.arg[1] > qpdf_e_object /\ last.code = "Unknown"

----------------------------------------------------------------------------
\* Loads and string arguments (SpecInput).

C10_NulRejected ==
    last.nul => last.res = "err" /\ last.code = "InvalidParameter"

----------------------------------------------------------------------------
\* Typed views (SpecInput).

\* C11: narrowing a handle into a typed view fails when the object is not of
\* the view's kind, so that a view of the wrong kind is never constructed.
C11_NarrowingChecked ==
    (last.op = "from" /\ last.arg[1] # last.arg[2]) => last.res = "err"

----------------------------------------------------------------------------
\* Arrays (SpecArray).

\* C12: get(index) with index >= len() returns None and fetches no item from
\* the engine; with index < len() it returns Some, a new handle of the item
\* at that index.
C12_GetBoundsChecked ==
    last.op = "array_get" =>
        LET d == last.doc
            h == last.arg[1]
            index == last.arg[2]
            before == last.arg[3]
        IN IF index >= len(d, h)
           THEN last.res = "none" /\ Len(oh[d]) = before
           ELSE /\ last.res = "some"
                /\ Len(oh[d]) = before + 1
                /\ Live(d, before + 1)
                /\ RefOf(d, before + 1) = Items(d, h)[index + 1]

\* get was called with an index past the end of an array that has items.
C12_PastTheEnd ==
    /\ last.op = "array_get"
    /\ len(last.doc, last.arg[1]) > 0
    /\ last.arg[2] >= len(last.doc, last.arg[1])
    /\ last.res = "none"

\* C13: set, insert and remove with an index beyond the array's length are
\* no-ops: the array is unchanged and the index is not forwarded to the
\* engine, so the engine has nothing to reject.
C13_OutOfRangeNoOp ==
    (/\ last.op \in {"array_set", "insert", "array_remove"}
     /\ oh[last.doc][last.arg[1]].ty = "array"
     /\ last.arg[2] >= (IF last.op = "insert" THEN last.arg[3] + 1 ELSE last.arg[3]))
    => /\ Items(last.doc, last.arg[1]) = last.arg[4]
       /\ ~last.raised

\* C14: an array is empty when it is made, and push appends: after a push
\* the array holds the items it held before, in their order, followed by the
\* pushed item, so that after k pushes len() is k and the items are in the
\* order of the pushes.
C14_PushAppends ==
    /\ \A n \in 1..MaxTable : n > TotalOh => heap[n] = <<>>
    /\ (last.op = "push" /\ ~last.raised) =>
          LET d == last.doc
              h == last.arg[1]
              before == last.arg[4]
              v == last.arg[5]
          IN /\ len(d, h) = last.arg[3] + 1
             /\ Len(before) = last.arg[3]
             /\ \A i \in 1..Len(before) : Items(d, h)[i] = before[i]
             /\ Items(d, h)[len(d, h)] = RefOf(d, v)

\* An item was pushed after an item that is another object.
C14_SecondPushed ==
    /\ last.op = "push"
    /\ len(last.doc, last.arg[1]) = 2
    /\ Items(last.doc, last.arg[1])[1] # Items(last.doc, last.arg[1])[2]

----------------------------------------------------------------------------
\* Loops over arrays (SpecIter).

\* C15: iter() starts at index 0; next() returns get(index) and moves to the
\* next index; it returns None only at the index len(), after it returned
\* len() items, and the index never passes len() + 1, so a loop ends.
C15_IteratorWalks ==
    /\ last.op = "iter" =>
          iter # <<>> /\ iter.arr = last.arg[1] /\ iter.index = 0 /\ ~iter.done
    /\ iter # <<>> => iter.index <= len(iter.doc, iter.arr) + 1
    /\ last.op = "next" =>
          LET d == last.doc
              h == last.arg[1]
              index == last.arg[2]
              before == last.arg[3]
          IN /\ iter # <<>> /\ iter.arr = h /\ iter.index = index + 1
             /\ IF last.res = "some"
                THEN /\ index < len(d, h)
                     /\ ~iter.done
                     /\ Len(oh[d]) = before + 1
                     /\ RefOf(d, before + 1) = Items(d, h)[index + 1]
                ELSE /\ index = len(d, h)
                     /\ iter.done
                     /\ Len(oh[d]) = before

\* A loop over an array of two items has ended.
C15_LoopEnded ==
    /\ last.op = "next"
    /\ last.res = "none"
    /\ last.arg[2] = 2

----------------------------------------------------------------------------
\* Dictionaries (SpecDict).

\* C16: after set(key, v) the dictionary holds v's object under key, and a
\* get(key) that returns Some returns a handle of the object held under key;
\* after remove(key) the dictionary has no entry for key; both leave the
\* entries of the other keys as they were.
C16_SetGetRemove ==
    LET d == last.doc
        h == last.arg[1]
        key == last.arg[2]
        e == Entries(d, h)
        SameOthers == /\ DOMAIN e \ {key} = DOMAIN last.arg[3]
                      /\ \A k \in DOMAIN e \ {key} : e[k] = last.arg[3][k]
    IN /\ (last.op = "set" /\ ~last.raised) =>
             key \in DOMAIN e /\ e[key] = RefOf(d, last.arg[4]) /\ SameOthers
       /\ (last.op = "remove" /\ ~last.raised) =>
             key \notin DOMAIN e /\ SameOthers
       /\ (last.op = "get" /\ ~last.raised /\ Cell(d, h) # 0 /\ key \in DOMAIN e
             /\ e[key].ty # "null") =>
             /\ last.res = "some"
             /\ Live(d, Len(oh[d]))
             /\ RefOf(d, Len(oh[d])) = e[key]

\* A key was set in a dictionary that holds another key.
C16_SecondKeySet ==
    /\ last.op = "set"
    /\ ~last.raised
    /\ DOMAIN last.arg[3] # {}
    /\ RefOf(last.doc, last.arg[4]) # RefOf(last.doc, last.arg[1])

\* C17: get(key) on a dictionary returns None when the dictionary has no
\* entry for key or holds a null under it, and Some otherwise; the handle of
\* a null is released again.
C17_AbsentOrNull ==
    (last.op = "get" /\ ~last.raised /\ Cell(last.doc, last.arg[1]) # 0) =>
        LET d == last.doc
            key == last.arg[2]
            e == Entries(d, last.arg[1])
            n == Len(oh[d])
        IN IF key \notin DOMAIN e \/ e[key].ty = "null"
           THEN last.res = "none" /\ oh[d][n].wrapped = 0 /\ oh[d][n].released = 1
           ELSE last.res = "some" /\ oh[d][n].wrapped = 1 /\ oh[d][n].released = 0

\* get was called with a key under which the dictionary holds a null.
C17_ExplicitNull ==
    /\ last.op = "get"
    /\ ~last.raised
    /\ last.arg[2] \in DOMAIN Entries(last.doc, last.arg[1])
    /\ Entries(last.doc, last.arg[1])[last.arg[2]].ty = "null"
    /\ last.res = "none"

----------------------------------------------------------------------------
\* Nulls in arrays (SpecArray).

\* C18: a lookup whose object is null returns None: get(index) of an item
\* that is an explicit null, like get_root and get_object_by_id of a null or
\* uninitialized object.
C18_NullIsNone ==
    /\ (/\ last.op = "array_get"
        /\ last.arg[2] < len(last.doc, last.arg[1])
        /\ Items(last.doc, last.arg[1])[last.arg[2] + 1].ty = "null")
       => last.res = "none"
    /\ (last.op \in {"get_root", "get_object_by_id"} /\ last.res = "some")
       => oh[last.doc][Len(oh[last.doc])].ty \notin {"null", "uninitialized"}

----------------------------------------------------------------------------
\* Equality of handles (SpecEq).

\* C19: two handles compare equal exactly when they are the same handle of
\* the same document; handles of different documents never compare equal.
C19_EqualInOneDocument ==
    last.op = "eq" =>
        (last.res = "true" <=> (last.doc = last.arg[2] /\ last.arg[1] = last.arg[3]))

----------------------------------------------------------------------------
\* Promotion to an indirect object (Spec).

\* C20: the handle into_indirect returns is of an indirect object with an
\* id that is not zero and generation 0, and the id is new: it is not the
\* id the object had before and not the id of another handle of the document.
C20_PromotionAllocatesId ==
    last.op = "into_indirect" =>
        LET d == last.doc
            n == last.arg[2]
        IN /\ Live(d, n)
           /\ is_indirect(d, n)
           /\ get_id(d, n) # 0
           /\ get_generation(d, n) = 0
           /\ get_id(d, n) # last.arg[1]
           /\ \A g \in 1..Len(oh[d]) :
                 g # n => get_id(d, g) # get_id(d, n)

\* An object that was indirect already was promoted.
C20_PromotedAgain ==
    /\ last.op = "into_indirect"
    /\ last.arg[1] # 0

----------------------------------------------------------------------------
\* Lookups by id (SpecId).

\* C21: a direct object has id 0 and generation 0; a lookup with the id and
\* generation of an indirect object that has a handle returns Some, a handle
\* of the same object, and a lookup with an id that was never given out
\* returns None.
C21_LookupById ==
    /\ \A d \in Docs : \A h \in 1..Len(oh[d]) :
          (Live(d, h) /\ oh[d][h].node.k = "obj" /\ oh[d][h].ty # "stream")
          => get_id(d, h) = 0 /\ get_generation(d, h) = 0
    /\ (last.op = "get_object_by_id" /\ ~last.stale) =>
          LET d == last.doc
              n == Len(oh[d])
          IN /\ \A x \in 1..n - 1 :
                   (/\ Live(d, x)
                    /\ is_indirect(d, x)
                    /\ get_id(d, x) = last.arg[1]
                    /\ get_generation(d, x) = last.arg[2])
                   => /\ last.res = "some"
                      /\ Live(d, n)
                      /\ oh[d][n].node = oh[d][x].node
             /\ last.arg[1] = NeverId => last.res = "none"

----------------------------------------------------------------------------
\* The writer (SpecWriter).

\* The engine calls of a complete write: the initialisation, the setter of
\* every staged field in the order of process_params, the commit, and for
\* memory the read of the buffer.
IsStaged(f) == staged[f] # <<>>

FullWrite(target) ==
    <<"init">> \o SelectSeq(Fields, IsStaged) \o <<"write">> \o
    (IF target = "memory" THEN <<"get_buffer">> ELSE <<>>)

\* C22: the engine calls of a write are, in this order, the initialisation,
\* the setter of every staged field and of no other, the commit once, and
\* for memory the read of the buffer after the commit succeeded: a write
\* that returns Ok made all of them, and every write made a prefix of them.
C22_WriteOrder ==
    last.op = "write" =>
        LET trace == last.arg[2]
            full == FullWrite(last.arg[1])
        IN /\ Len(trace) <= Len(full)
           /\ \A i \in 1..Len(trace) : trace[i] = full[i]
           /\ last.res = "ok" => trace = full
           /\ (\E i \in 1..Len(trace) : trace[i] = "get_buffer") => last.res = "ok"

\* A write to memory with a flag and a version staged succeeded.
C22_WroteWithOptions ==
    /\ last.op = "write"
    /\ last.res = "ok"
    /\ last.arg[1] = "memory"
    /\ Len(last.arg[2]) >= 5

\* A staged field whose stage fails: a version or password with a NUL, or a
\* version the engine refuses.
Bad(f) ==
    /\ IsStaged(f)
    /\ f \notin Flags
    /\ HasNul(staged[f][1]) \/ (f \in Versions /\ ~ValidVersion(staged[f][1]))

Seen(trace, f) == \E i \in 1..Len(trace) : trace[i] = f

\* C23: a write whose initialisation failed made no later call; a write with
\* a staged field whose stage fails returns Err, with the error of the first
\* such field when the initialisation succeeded, and made no setter call
\* for a later field and no commit; a commit is the last call but for the
\* read of the buffer, which is made only after the commit succeeded.
C23_FirstErrorAborts ==
    last.op = "write" =>
        LET trace == last.arg[2]
            applied == last.arg[3]
            bad == {i \in 1..Len(Fields) : Bad(Fields[i])}
            first == CHOOSE i \in bad : \A j \in bad : i <= j
        IN /\ (last.res = "err" /\ last.code = "SystemError") => trace = <<"init">>
           /\ (last.res = "err" /\ trace = <<>>) => last.nul /\ last.code = "InvalidParameter"
           /\ last.res = "err" => ~Seen(trace, "get_buffer")
           /\ \A i \in 1..Len(trace) : trace[i] = "write" =>
                 i = Len(trace) \/ (i = Len(trace) - 1 /\ last.res = "ok")
           /\ bad # {} =>
                 /\ last.res = "err"
                 /\ ~Seen(trace, "write")
                 /\ Fields[first] \notin applied
                 /\ \A j \in first + 1..Len(Fields) :
                       ~Seen(trace, Fields[j]) /\ Fields[j] \notin applied
                 /\ (trace # <<>> /\ last.code # "SystemError") =>
                       last.code = IF HasNul(staged[Fields[first]][1])
                                   THEN "InvalidParameter" ELSE "InternalError"

\* A write failed at a version with a NUL while the encryption parameters,
\* a later stage, were staged too.
C23_FailedAtVersion ==
    /\ last.op = "write"
    /\ last.res = "err"
    /\ last.arg[2] # <<>>
    /\ last.code = "InvalidParameter"
    /\ Bad("min_pdf_version")
    /\ IsStaged("encryption_params")

\* C24: a write applies the staged fields atomically: after a write that
\* returned Ok the engine's writer state took every staged field, and after a
\* write that returned Err it took none.
C24_AtomicCommit ==
    last.op = "write" =>
        IF last.res = "ok"
        THEN last.arg[3] = {f \in FieldSet : IsStaged(f)}
        ELSE last.arg[3] = {}

\* C25: a setter stages its own field and nothing else: after it the field
\* holds the value given, every other field holds what it held before, and
\* no engine call was made, so that the staged configuration is, field by
\* field, the last value given.
C25_SetterStagesOwnField ==
    last.op = "stage" =>
        /\ staged[last.arg[1]] = <<last.arg[2]>>
        /\ \A g \in FieldSet \ {last.arg[1]} : staged[g] = last.arg[3][g]
        /\ ~last.raised
        /\ \A d \in Docs : err[d] = NoError

\* A field was staged while another field held another value.
C25_SecondFieldStaged ==
    /\ last.op = "stage"
    /\ \E g \in FieldSet \ {last.arg[1]} :
          last.arg[3][g] # <<>> /\ last.arg[3][g] # <<last.arg[2]>>

----------------------------------------------------------------------------
\* Pages (SpecPages).

\* C26: appending a page of the document itself with add_page(page, false)
\* puts one more page at the end of the page tree; the document read back
\* from what write_to_memory returned has as many pages as the document
\* written; get_pages returns one handle for every page of the tree, and
\* remove_page of a page of the tree leaves one page fewer and the tree
\* without it. So n own pages appended make 2n pages in the file read back,
\* and removing every page get_pages returned leaves none.
C26_PagesDoubledAndRemoved ==
    /\ (last.op = "add_page" /\ last.arg[1] /\ ~last.arg[3] /\ ~last.raised) =>
          /\ num_pages(last.doc) = Len(last.arg[4]) + 1
          /\ SubSeq(pages[last.doc], 1, Len(last.arg[4])) = last.arg[4]
    /\ (last.op = "load_from_memory" /\ last.res = "ok") =>
          num_pages(last.doc) = num_pages(last.arg[1])
    /\ (last.op = "get_pages" /\ last.res = "ok") =>
          /\ Len(oh[last.doc]) = last.arg[1] + num_pages(last.doc)
          /\ \A i \in 1..num_pages(last.doc) :
                /\ Live(last.doc, last.arg[1] + i)
                /\ oh[last.doc][last.arg[1] + i].node = pages[last.doc][i]
    /\ (last.op = "remove_page" /\ ~last.raised) =>
          /\ num_pages(last.doc) = Len(last.arg[2]) - 1
          /\ ~InTree(last.doc, oh[last.doc][last.arg[1]].node)
          /\ ~last.stale => last.res = "ok"

\* The file's pages were appended to the file's document, which was written
\* and read back with twice the pages of the file.
C26_DoubledAndReadBack ==
    /\ last.op = "load_from_memory"
    /\ last.res = "ok"
    /\ num_pages(last.doc) = 2 * FilePages
    /\ SubSeq(pages[last.arg[1]], 1, FilePages) = PagesOfFile(FilePages)

----------------------------------------------------------------------------
\* Handles of one object (SpecAlias).

\* The handles of d that go back to the same handle as h through clones.
Aliases(d, h) ==
    {g \in 1..Len(oh[d]) : Live(d, g) /\ Origin(oh, d, g) = Origin(oh, d, h)}

----------------------------------------------------------------------------
\* Queries (SpecQuery).

\* C28: get_type and the is_ predicates return a value, a type or a boolean
\* that is the one of the object, and never an error or a panic; the
\* engine's error state after them is the one before them, a pending error
\* included.
C28_QueriesLeaveErrors ==
    (last.op \in {"get_type", "is"}) =>
        /\ err[last.doc] = last.arg[3]
        /\ ~last.raised
        /\ last.op = "get_type" => last.res = last.arg[2] /\ last.res \in TypeCodes
        /\ last.op = "is" => last.res \in {"true", "false"}

\* The type of a handle was asked for while an error was pending.
C28_AskedWhilePending ==
    /\ last.op = "get_type"
    /\ last.stale
    /\ qpdf_has_error(err[last.doc])

----------------------------------------------------------------------------
\* Streams (SpecStream).

\* The handles of d that stand for the stream behind h.
SameStream(d, h) == {g \in 1..Len(oh[d]) : IsStream(d, g) /\ oh[d][g].node = oh[d][h].node}

----------------------------------------------------------------------------
\* Lookups (SpecLookup).

LookupOps == {"get_page", "get_trailer", "get_root", "get_object_by_id"}

\* C30: a lookup whose engine call raised an error returns None, and after
\* any lookup the engine has no error pending, so that the next operation
\* does not read one; get_page of an index that is not below the number of
\* pages returns None.
C30_LookupsConsumeErrors ==
    (last.op \in LookupOps) =>
        /\ last.raised => last.res = "none"
        /\ ~qpdf_has_error(err[last.doc])
        /\ (last.op = "get_page" /\ ~last.arg[1]) => last.res = "none"

\* A page past the last one of the file was asked for while an error of an
\* earlier call was pending.
C30_PastLastPage ==
    /\ last.op = "get_page"
    /\ last.raised
    /\ last.stale
    /\ num_pages(last.doc) = FilePages

====
